---- MODULE Spec2Model ----
(***************************************************************************)
(* LinkedIn export parser: the parser worker (src/workers/parser.worker.ts, *)
(* second revision, lines 502-1176), the worker client (utils/parserWorker) *)
(* and the in-memory data store, as a state machine.                        *)
(*                                                                          *)
(* Text is modelled as a sequence of tokens (strings).  A file name such as *)
(* "sub/messages_archive.csv" is <<"sub", "/", "messages", "_archive",      *)
(* ".csv">>.  The token vocabulary is chosen so that every substring the    *)
(* code looks for ('connections', 'messages', ..., '/', '.csv') is a whole  *)
(* token and occurs inside no other token, so includes / endsWith / split   *)
(* on the text are includes / endsWith / split on the token sequence.       *)
(***************************************************************************)
EXTENDS Integers, Sequences, FiniteSets, TLC

\* ------------------------------------------------------------------ bounds
MaxFiles == 2
MaxInvocations == 2

\* ------------------------------------------------------------ text helpers

\* String.prototype.toLowerCase on one token.
Lower(tok) ==
  CASE tok = "Connections" -> "connections"
    [] tok = "Messages" -> "messages"
    [] tok = "Invitations" -> "invitations"
    [] tok = "Company Follows" -> "company follows"
    [] tok = "Saved Jobs" -> "saved jobs"
    [] tok = "Job Applications" -> "job applications"
    [] tok = "Export" -> "export"
    [] tok = ".CSV" -> ".csv"
    [] OTHER -> tok

ToLowerCase(text) == [i \in 1..Len(text) |-> Lower(text[i])]

\* String.prototype.includes(pattern), pattern a single token.
Includes(text, pattern) == \E i \in 1..Len(text) : text[i] = pattern

\* String.prototype.endsWith(suffix).
EndsWith(text, suffix) ==
  /\ Len(text) >= Len(suffix)
  /\ SubSeq(text, Len(text) - Len(suffix) + 1, Len(text)) = suffix

\* fileName.split('/').pop() || ''
Basename(text) ==
  LET slashes == {i \in 1..Len(text) : text[i] = "/"}
      last == IF slashes = {} THEN 0
              ELSE CHOOSE i \in slashes : \A j \in slashes : j <= i
  IN SubSeq(text, last + 1, Len(text))

\* Number.prototype.toString as used inside template strings.
NumStr(n) ==
  CASE n = 0 -> "0" [] n = 1 -> "1" [] n = 2 -> "2" [] n = 3 -> "3"
    [] n = 4 -> "4" [] n = 5 -> "5" [] n = 6 -> "6" [] n = 7 -> "7"
    [] n = 8 -> "8" [] n = 9 -> "9" [] OTHER -> "10+"

\* In the operators below an argument or intermediate value that the code
\* holds in a const is bound once, by CHOOSE r \in {e(x) : x \in {value}} : TRUE,
\* and used through that name.

\* Array.prototype.join(sep) on an array of strings.
RECURSIVE Join(_, _)
Join(cells, sep) ==
  CHOOSE joined \in
    {IF Len(c) = 0 THEN <<>>
     ELSE IF Len(c) = 1 THEN <<c[1]>>
     ELSE <<c[1], sep>> \o Join(Tail(c), sep) : c \in {cells}} : TRUE

\* Array.prototype.filter
RECURSIVE SelectIdx(_, _)
SelectIdx(s, keep) ==
  CHOOSE kept \in
    {IF Len(x) = 0 THEN <<>>
     ELSE (IF k[1] THEN <<x[1]>> ELSE <<>>)
            \o SelectIdx(Tail(x), Tail(k)) : x \in {s}, k \in {keep}} : TRUE

\* The six name patterns, in the order the handler tests them.
RelevantPatterns ==
  <<"connections", "messages", "invitations",
    "company follows", "saved jobs", "job applications">>

IsRelevantFile(lowerName) ==
  \E k \in 1..Len(RelevantPatterns) : Includes(lowerName, RelevantPatterns[k])

\* Variant: only a messages.csv at the top level of the archive is canonical.
IsCanonicalMessagesTopLevel(name) == ToLowerCase(name) = <<"messages", ".csv">>

\* basename === 'messages.csv' || lowerName.endsWith('/messages.csv')
IsCanonicalMessages(name) ==
  \/ ToLowerCase(Basename(name)) = <<"messages", ".csv">>
  \/ EndsWith(ToLowerCase(name), <<"/", "messages", ".csv">>)

\* --------------------------------------------------------- cells and rows
VARIABLE tzHours   \* the executing environment's local offset from UTC, hours

Undefined == "<undefined>"

\* normalizeText: strip a leading BOM, trim, collapse runs of white space.
NormalizeText(text) ==
  CASE text = "BOM+First Name" -> "First Name"
    [] text = " John " -> "John"
    [] text = "Acme  Corp" -> "Acme Corp"
    [] text = "   " -> ""
    [] OTHER -> text

\* row[index] of a JavaScript array: undefined past the end, '' after normalizeText.
Cell(row, i) == IF i >= 1 /\ i <= Len(row) THEN NormalizeText(row[i]) ELSE ""

NormalizeRow(row) == [i \in 1..Len(row) |-> NormalizeText(row[i])]

\* A cell value as a piece of text: the empty string contributes no token,
\* a cell that contains the separator "|" is cut at each "|".
T(s) ==
  CASE s = "" -> <<>>
    [] s = "conv-1||" -> <<"conv-1", "|", "|">>
    [] s = "||hi" -> <<"|", "|", "hi">>
    [] OTHER -> <<s>>

\* String.prototype.trim on a text whose only white-space token is " ".
RECURSIVE TrimLeft(_)
TrimLeft(text) ==
  IF Len(text) > 0 /\ text[1] = " " THEN TrimLeft(Tail(text)) ELSE text

RECURSIVE TrimRight(_)
TrimRight(text) ==
  IF Len(text) > 0 /\ text[Len(text)] = " "
  THEN TrimRight(SubSeq(text, 1, Len(text) - 1)) ELSE text

Trim(text) == TrimRight(TrimLeft(text))

RECURSIVE Flatten(_)
Flatten(seqs) ==
  CHOOSE flat \in
    {IF Len(s) = 0 THEN <<>> ELSE s[1] \o Flatten(Tail(s)) : s \in {seqs}} : TRUE

\* SHA-1 digest, hex, first 12 characters: kept symbolic, equal inputs give
\* equal digests and the model treats distinct inputs as distinct digests.
stableHash(input) == <<"sha1x12(">> \o input \o <<")">>

\* The length of stableHash's result: the SHA-1 digest is 20 bytes, written
\* as two hexadecimal characters each, of which substring(0, 12) keeps the
\* first twelve; one hexadecimal character carries four bits of the digest.
DigestBytes == 20

hashHexLength == DigestBytes * 2

stableHashLength == IF hashHexLength < 12 THEN hashHexLength ELSE 12

BitsPerHexChar == 4

\* The number of digest characters of an id made by stableHash, 0 otherwise.
HexLength(id) == IF Len(id) > 0 /\ id[1] = "sha1x12(" THEN stableHashLength ELSE 0

\* new Date(text) for the date texts of the vocabulary, after the trailing
\* " UTC" has been stripped: a date-time without zone designator is read as
\* LOCAL time, a date-only ISO form as UTC.  Result: UTC hour, or -1 (NaN).
DateUTCHour(dateStr) ==
  CASE dateStr = "2024-01-02 10:00:00 UTC" -> 10 - tzHours
    [] dateStr = "2024-01-02 10:00:00" -> 10 - tzHours
    [] dateStr = "2024-01-02 20:00:00" -> 20 - tzHours
    [] dateStr = "2024-01-02" -> 0
    [] OTHER -> -1

IsoString(hour) ==
  CASE hour = 0 -> "2024-01-02T00:00:00.000Z"
    [] hour = 5 -> "2024-01-02T05:00:00.000Z"
    [] hour = 10 -> "2024-01-02T10:00:00.000Z"
    [] hour = 15 -> "2024-01-02T15:00:00.000Z"
    [] hour = 18 -> "2024-01-02T18:00:00.000Z"
    [] hour = 20 -> "2024-01-02T20:00:00.000Z"
    [] hour = 28 -> "2024-01-03T04:00:00.000Z"
    [] OTHER -> "2024-01-02T??:00:00.000Z"

parseTimestamp(dateStr) ==
  IF dateStr = "" THEN ""
  ELSE IF DateUTCHour(dateStr) < 0 THEN ""
  ELSE IsoString(DateUTCHour(dateStr))

\* new Date(ts).toISOString().split('T')[0]
getDayBucket(ts) ==
  IF ts = "" THEN "unknown"
  ELSE IF ts = "2024-01-03T04:00:00.000Z" THEN "2024-01-03"
  ELSE "2024-01-02"

\* RegExp.prototype.test for the patterns of the alias lists, over the header
\* vocabulary of the model.
RegExpTest(src, header) ==
  CASE src = "^CONVERSATION ID$/i" -> header \in {"CONVERSATION ID", "Conversation ID"}
    [] src = "^FROM$/i" -> header \in {"FROM", "From"}
    [] src = "^TO$/i" -> header \in {"TO", "To"}
    [] src = "SENDER PROFILE URL/i" -> header \in {"SENDER PROFILE URL"}
    [] src = "RECIPIENT PROFILE URLS?/i" -> header \in {"RECIPIENT PROFILE URLS"}
    [] src = "^DATE$/i" -> header \in {"DATE", "Date"}
    [] src = "Sent On/i" -> header \in {"Sent On"}
    [] src = "^CONTENT$/i" -> header \in {"CONTENT"}
    [] src = "Message/i" -> header \in {"Message", "Message Body"}
    [] OTHER -> FALSE

Lit(s) == [re |-> FALSE, src |-> s]
Re(s) == [re |-> TRUE, src |-> s]

AliasTest(alias, header) ==
  IF alias.re THEN RegExpTest(alias.src, header) ELSE header = alias.src

\* findHeaderIndex: the first HEADER CELL (left to right) matched by any
\* alias; 0 when none (the code's -1; indices here are 1-based).
findHeaderIndex(headers, aliases) ==
  LET hits == {i \in 1..Len(headers) :
                 \E k \in 1..Len(aliases) : AliasTest(aliases[k], headers[i])}
  IN IF hits = {} THEN 0 ELSE CHOOSE i \in hits : \A j \in hits : i <= j

getValueByAliases(row, headers, aliases) ==
  LET index == findHeaderIndex(headers, aliases)
  IN IF index >= 1 THEN Cell(row, index) ELSE ""

\* parseCSV / parseXLSX output: every cell normalised.
parseTable(rawRows) == [i \in 1..Len(rawRows) |-> NormalizeRow(rawRows[i])]

\* row.some(cell => normalizeText(cell))
RowHasContent(row) == \E i \in 1..Len(row) : NormalizeText(row[i]) # ""

\* rawData.slice(from).filter(row => row.some(...)); from is 0-based.
DataRowsFrom(rawData, from) ==
  CHOOSE rows \in
    {SelectIdx(rest, [i \in 1..Len(rest) |-> RowHasContent(rest[i])]) :
       rest \in {SubSeq(rawData, from + 1, Len(rawData))}} : TRUE

\* Collect the per-row results of a normalizer loop.
Emitted(out) ==
  CHOOSE recs \in
    {Flatten([i \in 1..Len(o) |-> IF o[i].emit THEN <<o[i].rec>> ELSE <<>>]) :
       o \in {out}} : TRUE

\* Variant: the per-row warnings are not recorded.
RowWarningsDropped(out) == <<>>

RowWarnings(out) ==
  CHOOSE ws \in {Flatten([i \in 1..Len(o) |-> o[i].warns]) : o \in {out}} : TRUE

\* ------------------------------------------------------------- normalizers
\* Each normalizer returns [records, warnings]: the records it builds and the
\* warnings it pushes onto summary.warnings, in push order.

\* Variant: the cell must BE "You" (exact match, not substring).
ContainsYouExact(s) == s \in {"You"}

\* String.prototype.includes on a lower-cased cell, for the cell vocabulary.
ContainsYou(s) == s \in {"You", "you", "YOU", "Youssef Ali"}
ContainsOutgoing(s) == s \in {"OUTGOING", "Outgoing"}
ContainsIncoming(s) == s \in {"INCOMING", "Incoming"}

\* recipientUrls.split(',').map(normalizeText).filter(Boolean)
Recipients(recipientUrls) ==
  CASE recipientUrls = "" -> <<>>
    [] recipientUrls = "u/bob,u/carol" -> <<"u/bob", "u/carol">>
    [] recipientUrls = "u/carol,u/bob" -> <<"u/carol", "u/bob">>
    [] recipientUrls = "u/bob," -> <<"u/bob">>
    [] OTHER -> <<recipientUrls>>

\* Variant: the recipient list is joined in column order, unsorted.
SortUrlsUnsorted(urls) == urls

\* Array.prototype.sort (code-unit order) on recipient lists of the vocabulary.
SortUrls(urls) ==
  IF Len(urls) = 2 /\ urls[1] = "u/carol" /\ urls[2] = "u/bob"
  THEN <<"u/bob", "u/carol">> ELSE urls

\* Variant: the whole content enters the hash input.
First40Whole(content) == content

\* content.substring(0, 40)
First40(content) ==
  CASE content = "0123456789012345678901234567890123456789-tail A"
         -> "0123456789012345678901234567890123456789"
    [] content = "0123456789012345678901234567890123456789-tail B"
         -> "0123456789012345678901234567890123456789"
    [] OTHER -> content

OrUndefined(s) == IF s = "" THEN Undefined ELSE s

\* What a normalizer returns once its header row is known: the records of the
\* rows that were not skipped, and the warnings in push order (detected
\* headers, row count, per-row date warnings, processed count).
NormalizerResult(detected, found, processed, headers, dataRows, out, fileName) ==
  CHOOSE result \in
    {[records |-> Emitted(o),
      warnings |->
        << detected \o Join(headers, " | "),
           found \o <<NumStr(Len(dataRows)), " data rows found in ">> \o fileName >>
        \o RowWarnings(o)
        \o << processed[1] \o <<NumStr(Len(Emitted(o))), processed[2]>> \o fileName >>] :
       o \in {out}} : TRUE

\* Variant: the contact id is always derived from name, company and date.
ConnectionsRecordByName(firstName, lastName, url, company, position, connectedOn, location) ==
  LET trimmed == Trim(T(firstName) \o <<" ">> \o T(lastName))
      name == IF trimmed = <<>> THEN <<"Unknown">> ELSE trimmed
      connectedAt == parseTimestamp(connectedOn)
  IN [emit |-> TRUE,
      rec |-> [id |-> stableHash(name \o <<"|">> \o T(company) \o <<"|">> \o T(connectedAt)),
               name |-> name,
               title |-> OrUndefined(position), company |-> OrUndefined(company),
               location |-> OrUndefined(location), connectedAt |-> connectedAt,
               url |-> OrUndefined(url)],
      warns |-> IF connectedOn # "" /\ connectedAt = ""
                THEN << <<"Connections: Could not parse date \"", connectedOn, "\"">> >>
                ELSE <<>>]

\* The body of the processConnections loop, from the cells it has read.
ConnectionsRecord(firstName, lastName, url, company, position, connectedOn, location) ==
  LET trimmed == Trim(T(firstName) \o <<" ">> \o T(lastName))
      name == IF trimmed = <<>> THEN <<"Unknown">> ELSE trimmed
      connectedAt == parseTimestamp(connectedOn)
      idSource == IF url # "" THEN <<url>>
                  ELSE name \o <<"|">> \o T(company) \o <<"|">> \o T(connectedAt)
  IN [emit |-> TRUE,
      rec |-> [id |-> stableHash(idSource), name |-> name,
               title |-> OrUndefined(position), company |-> OrUndefined(company),
               location |-> OrUndefined(location), connectedAt |-> connectedAt,
               url |-> OrUndefined(url)],
      warns |-> IF connectedOn # "" /\ connectedAt = ""
                THEN << <<"Connections: Could not parse date \"", connectedOn, "\"">> >>
                ELSE <<>>]

ConnectionsRow(row, headers) ==
  CHOOSE out \in
    {ConnectionsRecord(firstName, lastName, url, company, position, connectedOn, location) :
       firstName \in {getValueByAliases(row, headers, <<Lit("First Name")>>)},
       lastName \in {getValueByAliases(row, headers, <<Lit("Last Name")>>)},
       url \in {getValueByAliases(row, headers, <<Lit("URL"), Lit("Profile URL")>>)},
       company \in {getValueByAliases(row, headers, <<Lit("Company"), Lit("Company Name")>>)},
       position \in {getValueByAliases(row, headers,
                        <<Lit("Position"), Lit("Title"), Lit("Job Title")>>)},
       connectedOn \in {getValueByAliases(row, headers,
                           <<Lit("Connected On"), Lit("Connected on"), Lit("Connected")>>)},
       location \in {getValueByAliases(row, headers,
                        <<Lit("Location"), Lit("City"), Lit("City, State"),
                          Lit("City/Region")>>)}} : TRUE

\* 0-based index of the first of the first 10 rows holding a "First Name"
\* cell, -1 when there is none.
ConnectionsHeaderRow(rawData) ==
  LET lim == IF Len(rawData) < 10 THEN Len(rawData) ELSE 10
      hits == {i \in 1..lim :
                 \E c \in 1..Len(rawData[i]) : NormalizeText(rawData[i][c]) = "First Name"}
  IN IF hits = {} THEN -1 ELSE (CHOOSE i \in hits : \A j \in hits : i <= j) - 1

\* processConnections once the header row has been found at headerRowIndex.
ConnectionsTable(headers, dataRows, fileName) ==
  NormalizerResult(<<"Connections: Detected headers: ">>, <<"Connections: ">>,
                   << <<"Connections: ">>, " contacts processed from " >>,
                   headers, dataRows,
                   [i \in 1..Len(dataRows) |-> ConnectionsRow(dataRows[i], headers)],
                   fileName)

processConnections(rawData, fileName) ==
  LET headerRowIndex == ConnectionsHeaderRow(rawData)
  IN IF headerRowIndex = -1
     THEN [records |-> <<>>,
           warnings |-> << <<"Connections: Could not find header row with \"First Name\" in ">>
                             \o fileName >>]
     ELSE ConnectionsTable(NormalizeRow(rawData[headerRowIndex + 1]),
                           DataRowsFrom(rawData, headerRowIndex + 1), fileName)

\* Variant: the recipient URLs are consulted before the conversation id.
ThreadIdRecipientsFirst(conversationId, recipients, participant, ts) ==
  IF Len(recipients) = 1 THEN stableHash(<<recipients[1]>>)
  ELSE IF Len(recipients) > 1 THEN stableHash(Join(SortUrls(recipients), "|"))
  ELSE IF conversationId # "" THEN T(conversationId)
  ELSE stableHash(T(participant) \o <<"|", getDayBucket(ts)>>)

\* threadId of a message: the conversation id, else a digest of the
\* recipient(s), else a digest of participant and day.
ThreadId(conversationId, recipients, participant, ts) ==
  IF conversationId # "" THEN T(conversationId)
  ELSE IF Len(recipients) = 1 THEN stableHash(<<recipients[1]>>)
  ELSE IF Len(recipients) > 1 THEN stableHash(Join(SortUrls(recipients), "|"))
  ELSE stableHash(T(participant) \o <<"|", getDayBucket(ts)>>)

\* messages.push({...}) of the processMessages loop.
MessageOf(threadId, meOrThem, senderUrl, recipients, content, date, ts) ==
  [emit |-> content # "",
   rec |-> [id |-> stableHash(threadId \o <<"|">> \o T(ts) \o <<"|">> \o T(First40(content))),
            threadId |-> threadId, meOrThem |-> meOrThem,
            otherId |-> IF meOrThem = "them" THEN senderUrl
                        ELSE IF Len(recipients) > 0 THEN recipients[1] ELSE "",
            body |-> content, ts |-> ts],
   warns |-> IF content # "" /\ date # "" /\ ts = ""
             THEN << <<"Messages: Could not parse date \"", date, "\"">> >>
             ELSE <<>>]

\* The body of the processMessages loop, from the cells it has read.
MessagesRecord(conversationId, from, to, senderUrl, recipientUrls, date, content) ==
  CHOOSE out \in
    {MessageOf(threadId, IF ContainsYou(from) THEN "me" ELSE "them",
               senderUrl, Recipients(recipientUrls), content, date, parseTimestamp(date)) :
       threadId \in {ThreadId(conversationId, Recipients(recipientUrls),
                              IF to # "" THEN to ELSE from, parseTimestamp(date))}} : TRUE

MessagesRow(row, headers) ==
  CHOOSE out \in
    {MessagesRecord(conversationId, from, to, senderUrl, recipientUrls, date, content) :
       conversationId \in {getValueByAliases(row, headers, <<Re("^CONVERSATION ID$/i")>>)},
       from \in {getValueByAliases(row, headers, <<Re("^FROM$/i")>>)},
       to \in {getValueByAliases(row, headers, <<Re("^TO$/i")>>)},
       senderUrl \in {getValueByAliases(row, headers, <<Re("SENDER PROFILE URL/i")>>)},
       recipientUrls \in {getValueByAliases(row, headers,
                             <<Re("RECIPIENT PROFILE URLS?/i")>>)},
       date \in {getValueByAliases(row, headers, <<Re("^DATE$/i"), Re("Sent On/i")>>)},
       content \in {getValueByAliases(row, headers,
                       <<Re("^CONTENT$/i"), Re("Message/i")>>)}} : TRUE

processMessages(rawData, fileName) ==
  IF Len(rawData) < 2
  THEN [records |-> <<>>,
        warnings |-> << <<"Messages: Insufficient data in ">> \o fileName >>]
  ELSE NormalizerResult(<<"Messages: Detected headers: ">>, <<"Messages: ">>,
                        << <<"Messages: ">>, " messages processed from " >>,
                        NormalizeRow(rawData[1]), DataRowsFrom(rawData, 1),
                        [i \in 1..Len(DataRowsFrom(rawData, 1)) |->
                           MessagesRow(DataRowsFrom(rawData, 1)[i], NormalizeRow(rawData[1]))],
                        fileName)

\* Variant: the Direction cell is ignored, the From cell alone decides.
InviteDirectionFromSender(from, direction) ==
  IF ContainsYou(from) THEN "sent" ELSE "received"

\* Direction of an invitation: the Direction cell when it says so, otherwise
\* "sent" exactly when the From cell contains "you".
InviteDirection(from, direction) ==
  IF ContainsOutgoing(direction) THEN "sent"
  ELSE IF ContainsIncoming(direction) THEN "received"
  ELSE IF ContainsYou(from) THEN "sent" ELSE "received"

\* invites.push({...}) of the processInvitations loop.
InviteOf(from, to, sentAt, message, inviteDirection, counterpartName, ts) ==
  [emit |-> ~(from = "" /\ to = ""),
   rec |-> [id |-> stableHash(<<inviteDirection, "|">> \o T(counterpartName)
                                \o <<"|">> \o T(ts)),
            direction |-> inviteDirection, counterpartName |-> counterpartName,
            status |-> "unknown", message |-> OrUndefined(message), ts |-> ts],
   warns |-> IF ~(from = "" /\ to = "") /\ sentAt # "" /\ ts = ""
             THEN << <<"Invitations: Could not parse date \"", sentAt, "\"">> >>
             ELSE <<>>]

\* The body of the processInvitations loop, from the cells it has read.
InvitationsRecord(from, to, sentAt, message, direction) ==
  InviteOf(from, to, sentAt, message, InviteDirection(from, direction),
           IF InviteDirection(from, direction) = "sent" THEN to ELSE from,
           parseTimestamp(sentAt))

InvitationsRow(row, headers) ==
  CHOOSE out \in
    {InvitationsRecord(from, to, sentAt, message, direction) :
       from \in {getValueByAliases(row, headers, <<Lit("From")>>)},
       to \in {getValueByAliases(row, headers, <<Lit("To")>>)},
       sentAt \in {getValueByAliases(row, headers,
                      <<Lit("Sent At"), Lit("Date"), Lit("Sent On")>>)},
       message \in {getValueByAliases(row, headers, <<Lit("Message"), Lit("Note")>>)},
       direction \in {getValueByAliases(row, headers,
                         <<Lit("Direction"), Lit("Type")>>)}} : TRUE

processInvitations(rawData, fileName) ==
  IF Len(rawData) < 2
  THEN [records |-> <<>>,
        warnings |-> << <<"Invitations: Insufficient data in ">> \o fileName >>]
  ELSE NormalizerResult(<<"Invitations: Detected headers: ">>, <<"Invitations: ">>,
                        << <<"Invitations: ">>, " invitations processed from " >>,
                        NormalizeRow(rawData[1]), DataRowsFrom(rawData, 1),
                        [i \in 1..Len(DataRowsFrom(rawData, 1)) |->
                           InvitationsRow(DataRowsFrom(rawData, 1)[i],
                                          NormalizeRow(rawData[1]))],
                        fileName)

\* The body of the processCompanyFollows loop, from the cells it has read.
CompanyFollowsRecord(organization, followedOn, ts) ==
  [emit |-> organization # "",
   rec |-> [id |-> stableHash(T(organization) \o <<"|">> \o T(ts)),
            company |-> organization, ts |-> ts],
   warns |-> IF organization # "" /\ followedOn # "" /\ ts = ""
             THEN << <<"Company Follows: Could not parse date \"", followedOn, "\"">> >>
             ELSE <<>>]

CompanyFollowsRow(row, headers) ==
  CHOOSE out \in
    {CompanyFollowsRecord(organization, followedOn, parseTimestamp(followedOn)) :
       organization \in {getValueByAliases(row, headers,
                            <<Lit("Organization"), Lit("Company")>>)},
       followedOn \in {getValueByAliases(row, headers,
                          <<Lit("Followed On"), Lit("Date")>>)}} : TRUE

processCompanyFollows(rawData, fileName) ==
  IF Len(rawData) < 2
  THEN [records |-> <<>>,
        warnings |-> << <<"Company Follows: Insufficient data in ">> \o fileName >>]
  ELSE NormalizerResult(<<"Company Follows: Detected headers: ">>, <<"Company Follows: ">>,
                        << <<"Company Follows: ">>, " follows processed from " >>,
                        NormalizeRow(rawData[1]), DataRowsFrom(rawData, 1),
                        [i \in 1..Len(DataRowsFrom(rawData, 1)) |->
                           CompanyFollowsRow(DataRowsFrom(rawData, 1)[i],
                                             NormalizeRow(rawData[1]))],
                        fileName)

\* The body of the processSavedJobs loop, from the cells it has read.
SavedJobsRecord(title, company, dateValue, ts, fileType) ==
  [emit |-> ~(title = "" /\ company = ""),
   rec |-> [id |-> stableHash(T(company) \o <<"|">> \o T(title) \o <<"|">> \o T(ts)),
            company |-> IF company = "" THEN "Unknown" ELSE company,
            title |-> IF title = "" THEN "Unknown" ELSE title,
            ts |-> ts],
   warns |-> IF ~(title = "" /\ company = "") /\ dateValue # "" /\ ts = ""
             THEN << <<fileType, ": Could not parse date \"", dateValue, "\"">> >>
             ELSE <<>>]

SavedJobsDateAliases ==
  <<Lit("Saved On"), Lit("Date"), Lit("Applied On"),
    Lit("Application Date"), Lit("Created On")>>

SavedJobsRow(row, headers, fileType) ==
  CHOOSE out \in
    {SavedJobsRecord(title, company, dateValue, parseTimestamp(dateValue), fileType) :
       title \in {getValueByAliases(row, headers, <<Lit("Title"), Lit("Job Title")>>)},
       company \in {getValueByAliases(row, headers,
                       <<Lit("Company"), Lit("Company Name")>>)},
       dateValue \in {getValueByAliases(row, headers, SavedJobsDateAliases)}} : TRUE

\* processSavedJobs with fileType = isApplications ? 'Job Applications' : 'Saved Jobs'.
SavedJobsTable(rawData, fileName, fileType) ==
  IF Len(rawData) < 2
  THEN [records |-> <<>>,
        warnings |-> << <<fileType, ": Insufficient data in ">> \o fileName >>]
  ELSE NormalizerResult(<<fileType, ": Detected headers: ">>, <<fileType, ": ">>,
                        << <<fileType, ": ">>, " jobs processed from " >>,
                        NormalizeRow(rawData[1]), DataRowsFrom(rawData, 1),
                        [i \in 1..Len(DataRowsFrom(rawData, 1)) |->
                           SavedJobsRow(DataRowsFrom(rawData, 1)[i],
                                        NormalizeRow(rawData[1]), fileType)],
                        fileName)

processSavedJobs(rawData, fileName, isApplications) ==
  SavedJobsTable(rawData, fileName,
                 IF isApplications THEN "Job Applications" ELSE "Saved Jobs")

\* -------------------------------------------------------- the file model
\* A File: its name, and what reading it gives.  openOk: JSZip can load it;
\* readOk: file.text() / file.arrayBuffer() / entry.async() succeeds;
\* corrupt: XLSX.read throws on its bytes; rows: the raw table it holds;
\* entries: the entries of an archive, in archive order; dir: a directory entry.
MkFile(name, rows) ==
  [name |-> name, rows |-> rows, readOk |-> TRUE, corrupt |-> FALSE,
   openOk |-> TRUE, dir |-> FALSE, entries |-> <<>>]

MkZip(name, entries) ==
  [name |-> name, rows |-> <<>>, readOk |-> TRUE, corrupt |-> FALSE,
   openOk |-> TRUE, dir |-> FALSE, entries |-> entries]

ErrorMessage == "<error message>"

IsZipName(name) == EndsWith(ToLowerCase(name), <<".zip">>)

\* extractZipFiles, one entry: the extracted files it contributes (0 or 1).
ExtractEntry(entry) ==
  LET fileName == entry.name
      lowerName == ToLowerCase(fileName)
      extracted == << [name |-> fileName, rows |-> entry.rows, corrupt |-> entry.corrupt] >>
  IN IF entry.dir THEN <<>>
     ELSE IF Includes(lowerName, "messages") /\ ~IsCanonicalMessages(fileName) THEN <<>>
     ELSE IF ~IsRelevantFile(lowerName) THEN <<>>
     ELSE IF EndsWith(fileName, <<".csv">>) \/ EndsWith(fileName, <<".xlsx">>)
          THEN (IF entry.readOk THEN extracted ELSE <<>>)
          ELSE <<>>

\* extractZipFiles: [threw, files].
extractZipFiles(zipFile) ==
  [threw |-> ~zipFile.openOk,
   files |-> Flatten([i \in 1..Len(zipFile.entries) |-> ExtractEntry(zipFile.entries[i])])]

WithOriginal(extracted, originalName) ==
  [i \in 1..Len(extracted) |->
     [name |-> extracted[i].name, rows |-> extracted[i].rows,
      corrupt |-> extracted[i].corrupt, originalName |-> originalName]]

EmptyPayload ==
  [contacts |-> <<>>, messages |-> <<>>, invites |-> <<>>,
   companyFollows |-> <<>>, savedJobs |-> <<>>,
   summary |-> [filesProcessed |-> <<>>, rows |-> <<>>, warnings |-> <<>>]]

\* One iteration of the first loop of the handler (lines 1042-1095) on the
\* pair acc = [filesToProcess, warnings].
CollectStep(acc, file) ==
  LET fileName == ToLowerCase(file.name)
      zipped == extractZipFiles(file)
      basename == Basename(file.name)
      asData == << [name |-> file.name, rows |-> file.rows, corrupt |-> file.corrupt,
                    originalName |-> file.name] >>
      Warn(w) == [filesToProcess |-> acc.filesToProcess,
                  warnings |-> Append(acc.warnings, w)]
  IN IF IsZipName(file.name)
     THEN IF zipped.threw
          THEN Warn(<<"Failed to extract ZIP file ">> \o file.name \o <<": ", ErrorMessage>>)
          ELSE [filesToProcess |->
                  acc.filesToProcess \o WithOriginal(zipped.files, file.name),
                warnings |->
                  Append(acc.warnings,
                         <<"Extracted ", NumStr(Len(zipped.files)), " files from ">>
                           \o file.name)]
     ELSE IF Includes(fileName, "messages") /\ ~IsCanonicalMessages(file.name)
     THEN Warn(<<"Ignoring auxiliary messages file ">> \o basename)
     ELSE IF ~IsRelevantFile(fileName)
     THEN Warn(<<"Unrecognized file: ">> \o file.name)
     ELSE IF EndsWith(fileName, <<".csv">>) \/ EndsWith(fileName, <<".xlsx">>)
     THEN IF file.readOk
          THEN [filesToProcess |-> acc.filesToProcess \o asData,
                warnings |-> acc.warnings]
          ELSE Warn(<<"Failed to read file ">> \o file.name \o <<": ", ErrorMessage>>)
     ELSE acc

\* The if / else-if chain of lines 1115-1130; "" when no pattern matches.
FileTypeOf(fileName) ==
  IF Includes(fileName, "connections") THEN "Connections"
  ELSE IF Includes(fileName, "messages") THEN "messages"
  ELSE IF Includes(fileName, "invitations") THEN "Invitations"
  ELSE IF Includes(fileName, "company follows") THEN "Company Follows"
  ELSE IF Includes(fileName, "saved jobs") THEN "Saved Jobs"
  ELSE IF Includes(fileName, "job applications") THEN "Job Applications"
  ELSE ""

\* payload.summary.rows[fileType] = n
SetRow(rows, fileType, n) ==
  [k \in (DOMAIN rows) \cup {fileType} |-> IF k = fileType THEN n ELSE rows[k]]

PushWarnings(payload, ws) ==
  [payload EXCEPT !.summary.warnings = @ \o ws]

\* The normalizer the switch of lines 1148-1167 calls for fileType.
Normalize(fileType, data, name) ==
  CASE fileType = "Connections" -> processConnections(data, name)
    [] fileType = "messages" -> processMessages(data, name)
    [] fileType = "Invitations" -> processInvitations(data, name)
    [] fileType = "Company Follows" -> processCompanyFollows(data, name)
    [] fileType = "Saved Jobs" -> processSavedJobs(data, name, FALSE)
    [] fileType = "Job Applications" -> processSavedJobs(data, name, TRUE)

\* Variant: the rows of a Job Applications file REPLACE the saved jobs.
StoreResultAssignJobs(payload, fileType, r) ==
  PushWarnings(
    CASE fileType = "Connections" -> [payload EXCEPT !.contacts = r.records]
      [] fileType = "messages" -> [payload EXCEPT !.messages = r.records]
      [] fileType = "Invitations" -> [payload EXCEPT !.invites = r.records]
      [] fileType = "Company Follows" -> [payload EXCEPT !.companyFollows = r.records]
      [] fileType = "Saved Jobs" -> [payload EXCEPT !.savedJobs = @ \o r.records]
      [] fileType = "Job Applications" -> [payload EXCEPT !.savedJobs = r.records],
    r.warnings)

\* The switch of lines 1148-1167: four collections are ASSIGNED the
\* normalizer's result, savedJobs is pushed onto.
StoreResult(payload, fileType, r) ==
  PushWarnings(
    CASE fileType = "Connections" -> [payload EXCEPT !.contacts = r.records]
      [] fileType = "messages" -> [payload EXCEPT !.messages = r.records]
      [] fileType = "Invitations" -> [payload EXCEPT !.invites = r.records]
      [] fileType = "Company Follows" -> [payload EXCEPT !.companyFollows = r.records]
      [] fileType = "Saved Jobs" -> [payload EXCEPT !.savedJobs = @ \o r.records]
      [] fileType = "Job Applications" -> [payload EXCEPT !.savedJobs = @ \o r.records],
    r.warnings)

StoreRecords(payload, fileType, data, name) ==
  CHOOSE stored \in
    {StoreResult(payload, fileType, r) : r \in {Normalize(fileType, data, name)}} : TRUE

\* Variant: the first revision's summary.filesProcessed.push(fileType).
ProcessedLabelBare(fileType, originalName) == <<fileType>>

\* summary.filesProcessed.push(`${fileType} (${originalName})`)
ProcessedLabel(fileType, originalName) ==
  <<fileType, " (">> \o originalName \o <<")">>

\* Variant of the second loop: the file is recorded in the summary BEFORE
\* it is parsed, so a sheet that cannot be read is recorded all the same.
ProcessStepRecordFirst(payload, fileData) ==
  LET fileName == ToLowerCase(fileData.name)
      basename == Basename(fileData.name)
      fileType == FileTypeOf(fileName)
      data == parseTable(fileData.rows)
      recorded ==
        [payload EXCEPT
           !.summary.filesProcessed =
               Append(@, ProcessedLabel(fileType, fileData.originalName)),
           !.summary.rows = SetRow(@, fileType, Len(data))]
  IN IF Includes(fileName, "messages") /\ ~IsCanonicalMessages(fileData.name)
     THEN PushWarnings(payload, << <<"Ignoring auxiliary messages file ">> \o basename >>)
     ELSE IF fileType = ""
     THEN PushWarnings(payload, << <<"Unrecognized file: ">> \o fileData.name >>)
     ELSE IF EndsWith(fileName, <<".csv">>)
     THEN StoreRecords(recorded, fileType, data, fileData.name)
     ELSE IF EndsWith(fileName, <<".xlsx">>)
     THEN IF fileData.corrupt
          THEN PushWarnings(recorded,
                 << <<"Error processing ">> \o fileData.name \o <<": ", ErrorMessage>> >>)
          ELSE StoreRecords(recorded, fileType, data, fileData.name)
     ELSE PushWarnings(payload, << <<"Unsupported file format: ">> \o fileData.name >>)

\* One iteration of the second loop of the handler (lines 1098-1172).
ProcessStep(payload, fileData) ==
  LET fileName == ToLowerCase(fileData.name)
      basename == Basename(fileData.name)
      fileType == FileTypeOf(fileName)
      data == parseTable(fileData.rows)
      recorded ==
        [payload EXCEPT
           !.summary.filesProcessed =
               Append(@, ProcessedLabel(fileType, fileData.originalName)),
           !.summary.rows = SetRow(@, fileType, Len(data))]
  IN IF Includes(fileName, "messages") /\ ~IsCanonicalMessages(fileData.name)
     THEN PushWarnings(payload, << <<"Ignoring auxiliary messages file ">> \o basename >>)
     ELSE IF fileType = ""
     THEN PushWarnings(payload, << <<"Unrecognized file: ">> \o fileData.name >>)
     ELSE IF EndsWith(fileName, <<".csv">>)
     THEN StoreRecords(recorded, fileType, data, fileData.name)
     ELSE IF EndsWith(fileName, <<".xlsx">>)
     THEN IF fileData.corrupt
          THEN PushWarnings(payload,
                 << <<"Error processing ">> \o fileData.name \o <<": ", ErrorMessage>> >>)
          ELSE StoreRecords(recorded, fileType, data, fileData.name)
     ELSE PushWarnings(payload, << <<"Unsupported file format: ">> \o fileData.name >>)

RECURSIVE CollectAll(_, _)
CollectAll(acc, fs) ==
  IF Len(fs) = 0 THEN acc ELSE CollectAll(CollectStep(acc, fs[1]), Tail(fs))

RECURSIVE ProcessAll(_, _)
ProcessAll(payload, ftp) ==
  IF Len(ftp) = 0 THEN payload ELSE ProcessAll(ProcessStep(payload, ftp[1]), Tail(ftp))

\* The payload the message handler posts for event.data = fs.
HandlerPayload(fs) ==
  LET collected == CollectAll([filesToProcess |-> <<>>, warnings |-> <<>>], fs)
  IN ProcessAll([EmptyPayload EXCEPT !.summary.warnings = collected.warnings],
                collected.filesToProcess)

\* ------------------------------------------------------------ the inputs
ConnRows ==
  << <<"Notes:">>,
     <<"BOM+First Name", "Last Name", "URL", "Company", "Connected On">>,
     <<" John ", "Doe", "", "Acme  Corp", "2024-01-02 10:00:00 UTC">>,
     <<"", "", "", "Acme", "not a date">> >>

ConnRows2 == << <<"First Name", "Last Name", "URL">>, <<"Ann", "Lee", "u/ann">> >>

MsgRows ==
  << <<"FROM", "TO", "DATE", "CONTENT", "RECIPIENT PROFILE URLS">>,
     <<"You", "Jane", "2024-01-02", "hi", "u/carol,u/bob">>,
     <<"Jane", "You", "", "", "">> >>

InvRows ==
  << <<"From", "To", "Sent At">>,
     <<"You", "Sarah Wilson", "2024-01-02 10:00:00 UTC">> >>

FollowRows == << <<"Organization", "Followed On">>, <<"Acme", "2024-01-02">> >>

JobRows == << <<"Title", "Company", "Saved On">>, <<"Engineer", "", "2024-01-02">> >>

AppRows == << <<"Title", "Company", "Applied On">>, <<"", "Acme", "not a date">> >>

Unreadable(f) == [f EXCEPT !.readOk = FALSE]
Corrupt(f) == [f EXCEPT !.corrupt = TRUE]
Directory(name) == [MkFile(name, <<>>) EXCEPT !.dir = TRUE]

\* Individual (non-archive) files a user can drop.
PlainFiles ==
  { MkFile(<<"Connections", ".csv">>, ConnRows),
    MkFile(<<"Connections", ".xlsx">>, ConnRows2),
    Corrupt(MkFile(<<"Connections", ".xlsx">>, ConnRows2)),
    Unreadable(MkFile(<<"Invitations", ".csv">>, InvRows)),
    MkFile(<<"messages", ".csv">>, MsgRows),
    MkFile(<<"messages", "_archive", ".csv">>, MsgRows),
    MkFile(<<"Invitations", ".csv">>, InvRows),
    MkFile(<<"Company Follows", ".csv">>, FollowRows),
    MkFile(<<"Saved Jobs", ".csv">>, JobRows),
    MkFile(<<"Job Applications", ".csv">>, AppRows),
    MkFile(<<"notes", ".csv">>, ConnRows2),
    MkFile(<<"Connections", ".txt">>, ConnRows2) }

\* Archives a user can drop.
ZipFiles ==
  { [MkZip(<<"Broken", ".zip">>, <<>>) EXCEPT !.openOk = FALSE],
    MkZip(<<"Export", ".zip">>,
          << MkFile(<<"Connections", ".csv">>, ConnRows2),
             Directory(<<"messages", "/">>),
             MkFile(<<"messages", "_archive", ".csv">>, MsgRows),
             MkFile(<<"messages", ".csv">>, MsgRows),
             Unreadable(MkFile(<<"Invitations", ".csv">>, InvRows)) >>),
    MkZip(<<"Nested", ".zip">>,
          << MkFile(<<"sub", "/", "messages", ".csv">>, MsgRows),
             MkFile(<<"connections", "/", "notes", ".csv">>, ConnRows),
             MkFile(<<"sub", "/", "messages", "_archive", ".csv">>, MsgRows),
             Corrupt(MkFile(<<"Saved Jobs", ".xlsx">>, JobRows)),
             MkFile(<<"Job Applications", ".CSV">>, AppRows) >>),
    MkZip(<<"Empty", ".zip">>, << MkFile(<<"notes", ".csv">>, ConnRows2) >>) }

FileCatalog == PlainFiles \cup ZipFiles

TimeZones == {0, 5, -8}

RECURSIVE SeqsUpTo(_, _)
SeqsUpTo(S, n) ==
  IF n = 0 THEN {<<>>}
  ELSE SeqsUpTo(S, n - 1)
         \cup {Append(q, x) : q \in {r \in SeqsUpTo(S, n - 1) : Len(r) = n - 1}, x \in S}

\* ------------------------------------------------------------- the state
VARIABLES
  files,           \* event.data of the message being handled
  pc,              \* the handler's position: "collect", "process", "post", "done"
  filesToProcess,  \* the handler's filesToProcess array
  fi,              \* number of input files the first loop has consumed
  pidx,            \* number of filesToProcess entries the second loop has consumed
  payload,         \* the handler's payload object
  posted,          \* what self.postMessage sent: <<>> or <<payload>>
  log              \* history: one entry per file handed to a normalizer

VARIABLES
  invs,            \* parseFiles invocations: promise, timer and input of each
  onmessage,       \* invocation whose closure is worker.onmessage (0: none)
  onerror,         \* invocation whose closure is worker.onerror (0: none)
  inbox,           \* messages posted to the worker, not yet dispatched
  running,         \* messages whose handler has started and not yet posted
  outbox,          \* events posted to the main thread, not yet dispatched
  workerAlive,     \* FALSE once the worker has raised an error event
  parsedData,      \* the data store: <<>> (null) or <<payload>>
  parsedFrom       \* history: the worker message the stored payload came with

runVars == <<files, pc, filesToProcess, fi, pidx, payload, posted, log>>
clientVars ==
  <<invs, onmessage, onerror, inbox, running, outbox, workerAlive, parsedData, parsedFrom>>
vars == <<tzHours, runVars, clientVars>>

ClientIdle ==
  /\ invs = <<>> /\ onmessage = 0 /\ onerror = 0 /\ inbox = <<>>
  /\ running = {} /\ outbox = <<>> /\ workerAlive = TRUE /\ parsedData = <<>>
  /\ parsedFrom = <<>>

\* --------------------------------------------- the worker's message handler
\* The state when the handler has built its empty payload (lines 1024-1040).
Init ==
  /\ tzHours \in TimeZones
  /\ files \in SeqsUpTo(FileCatalog, MaxFiles)
  /\ pc = "collect"
  /\ filesToProcess = <<>>
  /\ fi = 0
  /\ pidx = 0
  /\ payload = EmptyPayload
  /\ posted = <<>>
  /\ log = <<>>
  /\ ClientIdle

\* Variant: a file that cannot be opened or read throws out of the handler.
CollectFileThrowing ==
  /\ pc = "collect"
  /\ fi < Len(files)
  /\ files[fi + 1].openOk /\ files[fi + 1].readOk
  /\ LET acc == CollectStep([filesToProcess |-> filesToProcess,
                             warnings |-> payload.summary.warnings], files[fi + 1])
     IN /\ filesToProcess' = acc.filesToProcess
        /\ payload' = [payload EXCEPT !.summary.warnings = acc.warnings]
  /\ fi' = fi + 1
  /\ UNCHANGED <<tzHours, files, pc, pidx, posted, log, clientVars>>

\* for (const file of files) { ... }, one iteration.
CollectFile ==
  /\ pc = "collect"
  /\ fi < Len(files)
  /\ LET acc == CollectStep([filesToProcess |-> filesToProcess,
                             warnings |-> payload.summary.warnings], files[fi + 1])
     IN /\ filesToProcess' = acc.filesToProcess
        /\ payload' = [payload EXCEPT !.summary.warnings = acc.warnings]
  /\ fi' = fi + 1
  /\ UNCHANGED <<tzHours, files, pc, pidx, posted, log, clientVars>>

CollectDone ==
  /\ pc = "collect"
  /\ fi = Len(files)
  /\ pc' = "process"
  /\ UNCHANGED <<tzHours, files, filesToProcess, fi, pidx, payload, posted, log, clientVars>>

\* TRUE when the second loop hands fileData to a normalizer (line 1144 reached).
ReachesNormalizer(fileData) ==
  LET fileName == ToLowerCase(fileData.name)
  IN /\ ~(Includes(fileName, "messages") /\ ~IsCanonicalMessages(fileData.name))
     /\ FileTypeOf(fileName) # ""
     /\ \/ EndsWith(fileName, <<".csv">>)
        \/ EndsWith(fileName, <<".xlsx">>) /\ ~fileData.corrupt

LogEntry(fileData) ==
  LET fileType == FileTypeOf(ToLowerCase(fileData.name))
      data == parseTable(fileData.rows)
  IN [name |-> fileData.name, originalName |-> fileData.originalName,
      fileType |-> fileType, rowCount |-> Len(data),
      records |-> Normalize(fileType, data, fileData.name).records]

\* Variant: the files are normalized concurrently and whichever finishes
\* first is merged first.
ProcessFileAsCompleted ==
  /\ pc = "process"
  /\ pidx < Len(filesToProcess)
  /\ \E j \in {pidx + 1, Len(filesToProcess) - pidx} :
       /\ payload' = ProcessStep(payload, filesToProcess[j])
       /\ log' = IF ReachesNormalizer(filesToProcess[j])
                 THEN Append(log, LogEntry(filesToProcess[j])) ELSE log
  /\ pidx' = pidx + 1
  /\ UNCHANGED <<tzHours, files, pc, filesToProcess, fi, posted, clientVars>>

\* for (const fileData of filesToProcess) { ... }, one iteration.
ProcessFile ==
  /\ pc = "process"
  /\ pidx < Len(filesToProcess)
  /\ payload' = ProcessStep(payload, filesToProcess[pidx + 1])
  /\ log' = IF ReachesNormalizer(filesToProcess[pidx + 1])
            THEN Append(log, LogEntry(filesToProcess[pidx + 1])) ELSE log
  /\ pidx' = pidx + 1
  /\ UNCHANGED <<tzHours, files, pc, filesToProcess, fi, posted, clientVars>>

ProcessDone ==
  /\ pc = "process"
  /\ pidx = Len(filesToProcess)
  /\ pc' = "post"
  /\ UNCHANGED <<tzHours, files, filesToProcess, fi, pidx, payload, posted, log, clientVars>>

\* self.postMessage(payload)
PostPayload ==
  /\ pc = "post"
  /\ posted' = <<payload>>
  /\ pc' = "done"
  /\ UNCHANGED <<tzHours, files, filesToProcess, fi, pidx, payload, log, clientVars>>

Next == CollectFile \/ CollectDone \/ ProcessFile \/ ProcessDone \/ PostPayload

Spec == Init /\ [][Next]_vars

\* Messages whose files fail in every way the handler provides for, beside
\* files that are read and normalized.
FailureCatalog ==
  { [MkZip(<<"Broken", ".zip">>, <<>>) EXCEPT !.openOk = FALSE],
    MkZip(<<"Export", ".zip">>,
          << Directory(<<"messages", "/">>),
             Unreadable(MkFile(<<"Invitations", ".csv">>, InvRows)),
             MkFile(<<"Company Follows", ".csv">>, FollowRows) >>),
    Unreadable(MkFile(<<"Invitations", ".csv">>, InvRows)),
    Corrupt(MkFile(<<"Connections", ".xlsx">>, ConnRows2)),
    MkFile(<<"messages", "_archive", ".csv">>, MsgRows),
    MkFile(<<"notes", ".csv">>, ConnRows2),
    MkFile(<<"Connections", ".txt">>, ConnRows2),
    MkFile(<<"Saved Jobs", ".csv">>, JobRows) }

FairInit ==
  /\ tzHours \in TimeZones
  /\ files \in SeqsUpTo(FailureCatalog, MaxFiles)
  /\ pc = "collect"
  /\ filesToProcess = <<>>
  /\ fi = 0
  /\ pidx = 0
  /\ payload = EmptyPayload
  /\ posted = <<>>
  /\ log = <<>>
  /\ ClientIdle

\* Every promise the handler awaits (file.text, file.arrayBuffer, the archive
\* reader, the digest) settles, and the async function resumes after each:
\* a handler that can take a step eventually takes it.
FairSpec == FairInit /\ [][Next]_vars /\ WF_vars(Next)

\* The step-by-step handler and its closed form agree.
PostedIsHandlerPayload == pc = "done" => posted = <<HandlerPayload(files)>>

\* ------------------------------------------------- properties of one run
CanonicalLabels ==
  {"Connections", "messages", "Invitations", "Company Follows",
   "Saved Jobs", "Job Applications"}

RemoveAt(s, i) == SubSeq(s, 1, i - 1) \o SubSeq(s, i + 1, Len(s))

\* The text contains the tokens of sub, contiguously.
Mentions(text, sub) ==
  \E q \in 1..(Len(text) - Len(sub) + 1) : SubSeq(text, q, q + Len(sub) - 1) = sub

Count(s, x) == Cardinality({p \in 1..Len(s) : s[p] = x})

\* The archives of the input that JSZip can open, by position.
OpenedZips == {i \in 1..Len(files) : IsZipName(files[i].name) /\ files[i].openOk}

\* "Its path contains 'messages' and it is not the canonical messages.csv."
IsAuxiliaryName(name) ==
  /\ Includes(ToLowerCase(name), "messages")
  /\ ToLowerCase(Basename(name)) # <<"messages", ".csv">>

\* Number of supplied auxiliary message files and entries with this base name.
AuxCount(basename) ==
  Cardinality({i \in 1..Len(files) :
                 /\ ~IsZipName(files[i].name)
                 /\ IsAuxiliaryName(files[i].name)
                 /\ Basename(files[i].name) = basename})
  + Cardinality({ik \in UNION {{<<i, k>> : k \in 1..Len(files[i].entries)} :
                                   i \in OpenedZips} :
                   /\ ~files[ik[1]].entries[ik[2]].dir
                   /\ IsAuxiliaryName(files[ik[1]].entries[ik[2]].name)
                   /\ Basename(files[ik[1]].entries[ik[2]].name) = basename})

\* The log entries that stem from entry e of archive z.
LoggedFrom(z, e) ==
  {k \in 1..Len(log) : log[k].name = e.name /\ log[k].originalName = z.name}

\* C5 (as claimed): every auxiliary message entry of an archive yields no
\* Message record and exactly one "Ignoring auxiliary messages file" warning.
C5_AuxEntryOneWarning ==
  pc = "done" =>
    \A i \in OpenedZips : \A k \in 1..Len(files[i].entries) :
      LET e == files[i].entries[k]
      IN (~e.dir /\ IsAuxiliaryName(e.name)) =>
           /\ LoggedFrom(files[i], e) = {}
           /\ Count(payload.summary.warnings,
                    <<"Ignoring auxiliary messages file ">> \o Basename(e.name))
                = AuxCount(Basename(e.name))

RecordsOf(kinds) ==
  Flatten([n \in 1..Len(log) |->
             IF log[n].fileType \in kinds THEN log[n].records ELSE <<>>])

\* C7 (as claimed): each collection holds the records of every processed
\* file of its kind, in processing order; nothing is removed or replaced.
C7_CollectionsAppendOnly ==
  /\ payload.contacts = RecordsOf({"Connections"})
  /\ payload.messages = RecordsOf({"messages"})
  /\ payload.invites = RecordsOf({"Invitations"})
  /\ payload.companyFollows = RecordsOf({"Company Follows"})
  /\ payload.savedJobs = RecordsOf({"Saved Jobs", "Job Applications"})

RECURSIVE RowTotal(_, _)
RowTotal(entries, fileType) ==
  IF Len(entries) = 0 THEN 0
  ELSE (IF entries[1].fileType = fileType THEN entries[1].rowCount ELSE 0)
         + RowTotal(Tail(entries), fileType)

\* C8 (as claimed): diagnostics only accumulate: every processed file keeps
\* its label, and summary.rows still accounts for the rows of every processed
\* file of a kind after a later file of that kind was processed.
C8_DiagnosticsAppendOnly ==
  /\ Len(payload.summary.filesProcessed) = Len(log)
  /\ \A n \in 1..Len(log) :
       /\ log[n].fileType \in DOMAIN payload.summary.rows
       /\ payload.summary.rows[log[n].fileType] = RowTotal(log, log[n].fileType)

CannotOpen(f) == IsZipName(f.name) /\ ~f.openOk

\* "The sheet cannot be read": a recognised table file whose bytes cannot be
\* obtained, or a spreadsheet the reader throws on.
CannotReadSheet(f) ==
  /\ ~IsZipName(f.name)
  /\ IsRelevantFile(ToLowerCase(f.name))
  /\ ~IsAuxiliaryName(f.name)
  /\ \/ (~f.readOk /\ ToLowerCase(f.name)[Len(f.name)] \in {".csv", ".xlsx"})
     \/ (f.readOk /\ f.corrupt /\ EndsWith(ToLowerCase(f.name), <<".xlsx">>))

\* C10: a supplied file that cannot be opened or read costs exactly one
\* warning naming it, and the rest of the result is what the run yields
\* without that file.
C10_FatalToFileOnly ==
  pc = "done" =>
    \A i \in 1..Len(files) :
      (CannotOpen(files[i]) \/ CannotReadSheet(files[i])) =>
        LET without == HandlerPayload(RemoveAt(files, i))
        IN /\ payload.contacts = without.contacts
           /\ payload.messages = without.messages
           /\ payload.invites = without.invites
           /\ payload.companyFollows = without.companyFollows
           /\ payload.savedJobs = without.savedJobs
           /\ payload.summary.filesProcessed = without.summary.filesProcessed
           /\ payload.summary.rows = without.summary.rows
           /\ \E p \in 1..Len(payload.summary.warnings) :
                /\ Mentions(payload.summary.warnings[p], files[i].name)
                /\ RemoveAt(payload.summary.warnings, p) = without.summary.warnings

C10_Witness ==
  /\ pc = "done"
  /\ Len(files) = 2
  /\ CannotReadSheet(files[1])
  /\ files[1].corrupt
  /\ Len(payload.summary.filesProcessed) = 1
  /\ Len(payload.contacts) > 0

\* ------------------------------------------- the worker client and store
\* File sets a user drops; the second yields no usable entry.
ClientFileSets ==
  { << MkFile(<<"Connections", ".csv">>, ConnRows) >>,
    << MkFile(<<"notes", ".csv">>, ConnRows2) >>,
    << MkFile(<<"messages", ".csv">>, MsgRows),
       MkFile(<<"Saved Jobs", ".csv">>, JobRows) >> }

\* The promise executor of parseFiles (lines 18-24): a pending promise and
\* an armed 60 s timer.  from / late / settles are history, not program state.
NewInvocation(fs) ==
  [files |-> fs, state |-> "pending", value |-> <<>>, error |-> "",
   timer |-> "armed", from |-> 0, late |-> FALSE, settles |-> 0]

\* resolve(payload): settles a pending promise, no effect on a settled one.
Resolve(inv, ev) ==
  IF inv.state = "pending"
  THEN [inv EXCEPT !.state = "resolved", !.value = <<ev.data>>,
                   !.from = ev.id, !.late = ev.late, !.settles = @ + 1]
  ELSE inv

\* reject(new Error(...))
Reject(inv, why) ==
  IF inv.state = "pending"
  THEN [inv EXCEPT !.state = "rejected", !.error = why, !.settles = @ + 1]
  ELSE inv

\* clearTimeout(timeoutId) of the closure's own timer.
ClearTimeout(inv) ==
  IF inv.timer = "armed" THEN [inv EXCEPT !.timer = "cleared"] ELSE inv

\* Variant: the timer callback runs but does not reject.
OnTimeoutSilent(inv) == [inv EXCEPT !.timer = "fired"]

\* The setTimeout callback (lines 21-23).
OnTimeout(inv) == Reject([inv EXCEPT !.timer = "fired"], "timeout")

\* worker.onmessage of the invocation's closure (lines 25-29).
OnMessage(inv, ev) == Resolve(ClearTimeout(inv), ev)

\* worker.onerror of the invocation's closure (lines 31-34).
OnError(inv) == Reject(ClearTimeout(inv), "worker error")

ClientInit ==
  /\ tzHours \in TimeZones
  /\ files = <<>> /\ pc = "idle" /\ filesToProcess = <<>> /\ fi = 0 /\ pidx = 0
  /\ payload = EmptyPayload /\ posted = <<>> /\ log = <<>>
  /\ ClientIdle

\* handleFilesSelected(files) with a non-empty list (an empty list returns at
\* once): parseFiles creates the promise, arms the timer, REPLACES the
\* worker's onmessage / onerror with this invocation's closures and posts
\* the files.
handleFilesSelected(fs) ==
  /\ Len(invs) < MaxInvocations
  /\ invs' = Append(invs, NewInvocation(fs))
  /\ onmessage' = Len(invs) + 1
  /\ onerror' = Len(invs) + 1
  /\ inbox' = Append(inbox, [id |-> Len(invs) + 1, files |-> fs])
  /\ UNCHANGED <<tzHours, runVars, running, outbox, workerAlive, parsedData, parsedFrom>>

\* The worker dispatches the next message event: its async handler starts.
WorkerDispatch ==
  /\ workerAlive
  /\ inbox # <<>>
  /\ running' = running \cup {Head(inbox)}
  /\ inbox' = Tail(inbox)
  /\ UNCHANGED <<tzHours, runVars, invs, onmessage, onerror, outbox, workerAlive,
                 parsedData, parsedFrom>>

\* A running handler reaches self.postMessage(payload).  Handlers of
\* different messages interleave at their awaits and may finish in any order.
WorkerPost(m) ==
  /\ workerAlive
  /\ m \in running
  /\ outbox' = Append(outbox, [kind |-> "message", id |-> m.id,
                               data |-> HandlerPayload(m.files),
                               late |-> invs[m.id].error = "timeout"])
  /\ running' = running \ {m}
  /\ UNCHANGED <<tzHours, runVars, invs, onmessage, onerror, inbox, workerAlive,
                 parsedData, parsedFrom>>

\* The worker script fails before it handles any message: an error event.
WorkerError ==
  /\ workerAlive
  /\ invs # <<>>
  /\ Len(inbox) = Len(invs)
  /\ workerAlive' = FALSE
  /\ outbox' = Append(outbox, [kind |-> "error", id |-> 0, data |-> EmptyPayload,
                               late |-> FALSE])
  /\ UNCHANGED <<tzHours, runVars, invs, onmessage, onerror, inbox, running,
                 parsedData, parsedFrom>>

\* Variant: the payload of every message event is stored, also when the
\* promise it is delivered to has already been rejected.
DeliverEventStoringAlways ==
  /\ outbox # <<>>
  /\ LET ev == Head(outbox)
         h == IF ev.kind = "message" THEN onmessage ELSE onerror
     IN /\ invs' = [invs EXCEPT ![h] = IF ev.kind = "message"
                                       THEN OnMessage(@, ev) ELSE OnError(@)]
        /\ IF ev.kind = "message"
           THEN /\ parsedData' = <<ev.data>>
                /\ parsedFrom' = <<[id |-> ev.id, late |-> ev.late]>>
           ELSE UNCHANGED <<parsedData, parsedFrom>>
  /\ outbox' = Tail(outbox)
  /\ UNCHANGED <<tzHours, runVars, onmessage, onerror, inbox, running, workerAlive>>

\* The main thread dispatches the next worker event to the CURRENT handler.
\* A resolved promise resumes handleFilesSelected in the same turn:
\* dataStore.setParsedData(payload).
DeliverEvent ==
  /\ outbox # <<>>
  /\ LET ev == Head(outbox)
         h == IF ev.kind = "message" THEN onmessage ELSE onerror
     IN /\ invs' = [invs EXCEPT ![h] = IF ev.kind = "message"
                                       THEN OnMessage(@, ev) ELSE OnError(@)]
        /\ IF ev.kind = "message" /\ invs[h].state = "pending"
           THEN /\ parsedData' = <<ev.data>>
                /\ parsedFrom' = <<[id |-> ev.id, late |-> ev.late]>>
           ELSE UNCHANGED <<parsedData, parsedFrom>>
  /\ outbox' = Tail(outbox)
  /\ UNCHANGED <<tzHours, runVars, onmessage, onerror, inbox, running, workerAlive>>

\* The 60 s timer of invocation i expires.
TimeoutFires(i) ==
  /\ i \in 1..Len(invs)
  /\ invs[i].timer = "armed"
  /\ invs' = [invs EXCEPT ![i] = OnTimeout(@)]
  /\ UNCHANGED <<tzHours, runVars, onmessage, onerror, inbox, running, outbox,
                 workerAlive, parsedData, parsedFrom>>

\* dataStore.getParsedData() and dataStore.hasData(); a value of type
\* ParsedPayload | null is <<payload>> or Null.
Null == <<>>

getParsedData == parsedData

hasData == parsedData # Null

\* dataStore.clearData()
clearData ==
  /\ parsedData # <<>>
  /\ parsedData' = <<>>
  /\ parsedFrom' = <<>>
  /\ UNCHANGED <<tzHours, runVars, invs, onmessage, onerror, inbox, running, outbox,
                 workerAlive>>

ClientNext ==
  \/ \E fs \in ClientFileSets : handleFilesSelected(fs)
  \/ WorkerDispatch
  \/ \E m \in running : WorkerPost(m)
  \/ WorkerError
  \/ DeliverEvent
  \/ \E i \in 1..MaxInvocations : TimeoutFires(i)
  \/ clearData

ClientSpec == ClientInit /\ [][ClientNext]_vars

\* The browser's event loop runs every queued task and every armed timer;
\* nothing obliges the worker to make progress.
FairClientSpec ==
  /\ ClientSpec
  /\ WF_vars(DeliverEvent)
  /\ \A i \in 1..MaxInvocations : WF_vars(TimeoutFires(i))

\* ------------------------------------------------ properties of the client
\* C1 (as claimed): an invocation that resolves, resolves with the payload
\* the worker computed from its own files.
C1_ResolvesWithOwnPayload ==
  \A i \in 1..Len(invs) :
    invs[i].state = "resolved" =>
      /\ invs[i].from = i
      /\ invs[i].value = <<HandlerPayload(invs[i].files)>>

\* C2 (as claimed): a payload the worker posts for an invocation after that
\* invocation timed out resolves no promise and never reaches the store.
C2_AbandonedPayloadNotDelivered ==
  /\ \A i \in 1..Len(invs) : ~invs[i].late
  /\ \A k \in 1..Len(parsedFrom) : ~parsedFrom[k].late

\* C3: every invocation eventually settles, and settles once: resolved with
\* a payload or rejected with an error, never both.
C3_SettlesExactlyOnce ==
  /\ \A i \in 1..MaxInvocations :
       (Len(invs) >= i) ~> (Len(invs) >= i /\ invs[i].state # "pending")
  /\ [](\A i \in 1..Len(invs) :
          /\ invs[i].settles <= 1
          /\ (invs[i].state = "pending") <=> (invs[i].settles = 0)
          /\ (invs[i].state = "resolved") <=> (invs[i].value # <<>>)
          /\ (invs[i].state = "rejected") <=> (invs[i].error # "")
          /\ (invs[i].state = "pending") => (invs[i].timer = "armed"))

\* An invocation whose handlers a later invocation overwrote has settled (by
\* its timer) after the later one took its payload.
C3_Witness ==
  /\ Len(invs) >= 2
  /\ invs[1].state = "rejected"
  /\ invs[1].error = "timeout"
  /\ invs[2].state = "resolved"
  /\ invs[2].from = 1

\* No usable entry: no supplied file or archive entry is recognised and read.
ZeroUsable(fs) == HandlerPayload(fs).summary.filesProcessed = <<>>

\* C4 (as claimed): a file set with zero usable entries never ends in a
\* successful result.
C4_ZeroUsableIsError ==
  \A i \in 1..Len(invs) :
    (invs[i].state = "resolved" /\ invs[i].from = i) => ~ZeroUsable(invs[i].files)

\* ------------------------------------------- properties of archive entries
\* Entry e of an opened archive is recognized (a file, not an auxiliary
\* messages file, relevant by name, .csv or .xlsx) and its extraction throws.
ExtractionFails(e) ==
  /\ ~e.dir
  /\ ~(Includes(ToLowerCase(e.name), "messages") /\ ~IsCanonicalMessages(e.name))
  /\ IsRelevantFile(ToLowerCase(e.name))
  /\ EndsWith(e.name, <<".csv">>) \/ EndsWith(e.name, <<".xlsx">>)
  /\ ~e.readOk

\* C11 (as claimed): when the extraction of a recognized entry of an archive
\* fails, summary.warnings holds a warning that names that entry.
C11_EntryFailureWarned ==
  pc = "done" =>
    \A i \in OpenedZips : \A k \in 1..Len(files[i].entries) :
      ExtractionFails(files[i].entries[k]) =>
        \E w \in 1..Len(payload.summary.warnings) :
          Mentions(payload.summary.warnings[w], files[i].entries[k].name)

\* ------------------------------------------------- one table, row by row
\* The handler on ONE file whose table is drawn from a small vocabulary:
\* Preamble rows, then a header row, then at most MaxRows data rows.
MaxRows == 2

LongA == "0123456789012345678901234567890123456789-tail A"
LongB == "0123456789012345678901234567890123456789-tail B"

ConnectionsHeader ==
  <<"First Name", "Last Name", "URL", "Company", "Position", "Connected On">>

\* An export that has a "Title" column to the left of its "Position" column.
ConnectionsHeaderTitled ==
  <<"First Name", "Last Name", "URL", "Company", "Title", "Position">>

ConnectionsRowSet ==
  { <<"John", "Doe", "u/john", "Acme", "Engineer", "2024-01-02">>,
    <<"Johnny", "D", "u/john", "Acme  Corp", "Boss", "not a date">>,
    <<"", "", "", "Acme", "", "">>,
    <<"Unknown", "", "", "Acme", "", "">>,
    <<" John ", "Doe", "", "Acme  Corp", "", "2024-01-02 10:00:00 UTC">>,
    <<"", "", "", "", "", "">> }

MessagesHeader ==
  <<"CONVERSATION ID", "FROM", "TO", "SENDER PROFILE URL",
    "RECIPIENT PROFILE URLS", "DATE", "CONTENT">>

MessagesRowSet ==
  { <<"", "You", "Jane", "", "u/bob,u/carol", "2024-01-02", LongA>>,
    <<"", "Youssef Ali", "Jane", "u/youssef", "u/carol,u/bob", "2024-01-02", LongB>>,
    <<"conv-1", "Jane", "You", "u/jane", "u/bob", "2024-01-02 10:00:00", "hi">>,
    <<"", "Jane", "", "u/jane", "", "not a date", "hi">>,
    <<"", "Bob", "Jane", "", "", "2024-01-02", "hi">>,
    <<"", "you", "Jane", "", "u/bob,", "", "hi">>,
    <<"", "YOU", "", "", "", "", "hello">>,
    <<"", "Bob", "", "", "", "2024-01-02 20:00:00", "hi">>,
    <<"conv-1", "Jane", "You", "u/jane", "", "", "||hi">>,
    <<"conv-1||", "Jane", "You", "u/jane", "", "", "hi">>,
    <<"", "You", "Jane", "", "u/bob", "2024-01-02", "">>,
    <<"", "", "", "", "", "", "">> }

InvitationsHeaders ==
  { <<"From", "To", "Sent At", "Message", "Direction">>,
    <<"From", "To", "Sent At", "Message">> }

InvitationsRowSet ==
  { <<"You", "Sarah Wilson", "2024-01-02 10:00:00 UTC", "", "">>,
    <<"Sarah Wilson", "You", "", "hello", "INCOMING">>,
    <<"Jane", "Bob", "", "", "Outgoing">>,
    <<"You", "Bob", "2024-01-02", "", "Incoming">>,
    <<"", "Bob", "not a date", "", "">>,
    <<"Youssef Ali", "Bob", "", "", "Pending">>,
    <<"", "", "2024-01-02", "hello", "OUTGOING">> }

CompanyFollowsHeader == <<"Organization", "Followed On">>

CompanyFollowsRowSet ==
  { <<"Acme", "2024-01-02">>, <<"Acme", "not a date">>, <<"Acme", "">>,
    <<"", "2024-01-02">>, <<"Acme  Corp", "2024-01-02 10:00:00">> }

SavedJobsHeaders ==
  { <<"Title", "Company", "Saved On">>, <<"Job Title", "Company Name", "Applied On">> }

SavedJobsRowSet ==
  { <<"Engineer", "", "2024-01-02">>,
    <<"Engineer", "Unknown", "2024-01-02">>,
    <<"", "Acme", "not a date">>,
    <<"Unknown", "Acme", "">>,
    <<"Engineer", "Acme", "2024-01-02 10:00:00">>,
    <<"", "", "2024-01-02">> }

\* Descriptive rows an export may put before its header row.
PreambleLengths == {0, 1, 9, 10}

Preamble(n) == [i \in 1..n |-> <<"Notes:">>]

\* The tables of one kind: a preamble, a header, at most MaxRows data rows.
TablesOf(headers, rowSet) ==
  {Preamble(p) \o <<h>> \o rows :
     p \in PreambleLengths, h \in headers, rows \in SeqsUpTo(rowSet, MaxRows)}

TableFiles ==
  {MkFile(<<"Connections", ".csv">>, t) : t \in TablesOf({ConnectionsHeader, ConnectionsHeaderTitled}, ConnectionsRowSet)}
  \cup {MkFile(<<"messages", ".csv">>, t) : t \in TablesOf({MessagesHeader}, MessagesRowSet)}
  \cup {MkFile(<<"Invitations", ".csv">>, t) : t \in TablesOf(InvitationsHeaders, InvitationsRowSet)}
  \cup {MkFile(<<"Company Follows", ".xlsx">>, t) :
          t \in TablesOf({CompanyFollowsHeader}, CompanyFollowsRowSet)}
  \cup {MkFile(<<"Saved Jobs", ".csv">>, t) : t \in TablesOf(SavedJobsHeaders, SavedJobsRowSet)}
  \cup {MkFile(<<"Job Applications", ".csv">>, t) :
          t \in TablesOf(SavedJobsHeaders, SavedJobsRowSet)}

\* The handler's initial state on a message holding one such file.
TableInit ==
  /\ tzHours \in TimeZones
  /\ files \in {<<f>> : f \in TableFiles}
  /\ pc = "collect"
  /\ filesToProcess = <<>>
  /\ fi = 0
  /\ pidx = 0
  /\ payload = EmptyPayload
  /\ posted = <<>>
  /\ log = <<>>
  /\ ClientIdle

TableSpec == TableInit /\ [][Next]_vars

\* ------------------------------------------------ properties of the records
\* Every pair of records of one collection that agree under Same has one id.
AgreeingHaveOneId(records, Same(_, _)) ==
  \A a \in 1..Len(records) : \A b \in 1..Len(records) :
    Same(records[a], records[b]) => records[a].id = records[b].id

SameContactIdentity(a, b) ==
  IF a.url # Undefined \/ b.url # Undefined
  THEN a.url = b.url
  ELSE a.name = b.name /\ a.company = b.company /\ a.connectedAt = b.connectedAt

SameMessageIdentity(a, b) ==
  a.threadId = b.threadId /\ a.ts = b.ts /\ First40(a.body) = First40(b.body)

SameInviteIdentity(a, b) ==
  a.direction = b.direction /\ a.counterpartName = b.counterpartName /\ a.ts = b.ts

SameFollowIdentity(a, b) == a.company = b.company /\ a.ts = b.ts

SameJobIdentity(a, b) == a.company = b.company /\ a.title = b.title /\ a.ts = b.ts

\* C12 (as claimed): in every collection of the posted payload, two records
\* that agree on the identity fields of their kind have equal ids; for a
\* SavedJob the identity fields are the record's company, title and ts.
C12_IdFunctionOfIdentityFields ==
  pc = "done" =>
    /\ AgreeingHaveOneId(payload.contacts, SameContactIdentity)
    /\ AgreeingHaveOneId(payload.messages, SameMessageIdentity)
    /\ AgreeingHaveOneId(payload.invites, SameInviteIdentity)
    /\ AgreeingHaveOneId(payload.companyFollows, SameFollowIdentity)
    /\ AgreeingHaveOneId(payload.savedJobs, SameJobIdentity)

\* ------------------------------------------------ properties of one table
\* The one file of the run is of this kind.
TableKind == FileTypeOf(ToLowerCase(files[1].name))

TableData == parseTable(files[1].rows)

\* Header row and data rows as processConnections finds them.
ConnectionsHeaders ==
  IF ConnectionsHeaderRow(TableData) = -1 THEN <<>>
  ELSE TableData[ConnectionsHeaderRow(TableData) + 1]

ConnectionsDataRows ==
  IF ConnectionsHeaderRow(TableData) = -1 THEN <<>>
  ELSE DataRowsFrom(TableData, ConnectionsHeaderRow(TableData) + 1)

ConnectionsCell(i, column) ==
  getValueByAliases(ConnectionsDataRows[i], ConnectionsHeaders, <<Lit(column)>>)

\* C13: two Connections rows carrying the same non-empty profile URL give
\* Contacts with equal ids, whatever their other cells hold.  (Every data row
\* of a Connections table becomes a Contact, in row order.)
C13_SameUrlSameContactId ==
  (pc = "done" /\ TableKind = "Connections") =>
    /\ Len(payload.contacts) = Len(ConnectionsDataRows)
    /\ \A i \in 1..Len(payload.contacts) : \A j \in 1..Len(payload.contacts) :
         (ConnectionsCell(i, "URL") # "" /\ ConnectionsCell(i, "URL") = ConnectionsCell(j, "URL"))
           => payload.contacts[i].id = payload.contacts[j].id

C13_Witness ==
  /\ pc = "done" /\ TableKind = "Connections" /\ Len(payload.contacts) = 2
  /\ ConnectionsCell(1, "URL") # ""
  /\ ConnectionsCell(1, "URL") = ConnectionsCell(2, "URL")
  /\ payload.contacts[1].name # payload.contacts[2].name
  /\ payload.contacts[1].company # payload.contacts[2].company
  /\ payload.contacts[1].connectedAt # payload.contacts[2].connectedAt
  /\ payload.contacts[1].id = payload.contacts[2].id

\* Header row and data rows as processMessages takes them; the rows it emits
\* a Message for (non-empty content), in order.
MessagesHeaders == TableData[1]

MessagesContent(row) ==
  getValueByAliases(row, MessagesHeaders, <<Re("^CONTENT$/i"), Re("Message/i")>>)

MessagesEmittedRows ==
  IF Len(TableData) < 2 THEN <<>>
  ELSE SelectIdx(DataRowsFrom(TableData, 1),
                 [i \in 1..Len(DataRowsFrom(TableData, 1)) |->
                    MessagesContent(DataRowsFrom(TableData, 1)[i]) # ""])

\* A cell of the row behind the k-th Message of the payload.
MessagesCell(k, pattern) ==
  getValueByAliases(MessagesEmittedRows[k], MessagesHeaders, <<Re(pattern)>>)

\* The normalized non-empty recipient URLs of that row, in column order.
RecipientList(k) == Recipients(MessagesCell(k, "RECIPIENT PROFILE URLS?/i"))

IsPermutation(s, t) ==
  /\ Len(s) = Len(t)
  /\ \A p \in 1..Len(s) : Count(s, s[p]) = Count(t, s[p])

MessagesDone ==
  /\ pc = "done" /\ TableKind = "messages"
  /\ Len(payload.messages) = Len(MessagesEmittedRows)

\* C14 (as claimed): two message rows without conversation identifier whose
\* recipient lists are permutations of each other get the same thread key.
C14_PermutedRecipientsSameThreadAlways ==
  (pc = "done" /\ TableKind = "messages") =>
    /\ Len(payload.messages) = Len(MessagesEmittedRows)
    /\ \A i \in 1..Len(payload.messages) : \A j \in 1..Len(payload.messages) :
         (/\ MessagesCell(i, "^CONVERSATION ID$/i") = ""
          /\ MessagesCell(j, "^CONVERSATION ID$/i") = ""
          /\ IsPermutation(RecipientList(i), RecipientList(j)))
           => payload.messages[i].threadId = payload.messages[j].threadId

\* C14 (amended): two message rows without conversation identifier, with at
\* least one non-empty recipient URL, whose recipient lists are permutations
\* of each other get the same thread key.
C14_PermutedRecipientsSameThread ==
  (pc = "done" /\ TableKind = "messages") =>
    /\ Len(payload.messages) = Len(MessagesEmittedRows)
    /\ \A i \in 1..Len(payload.messages) : \A j \in 1..Len(payload.messages) :
         (/\ MessagesCell(i, "^CONVERSATION ID$/i") = ""
          /\ MessagesCell(j, "^CONVERSATION ID$/i") = ""
          /\ Len(RecipientList(i)) >= 1
          /\ IsPermutation(RecipientList(i), RecipientList(j)))
           => payload.messages[i].threadId = payload.messages[j].threadId

C14_Witness ==
  /\ MessagesDone /\ Len(payload.messages) = 2
  /\ MessagesCell(1, "^CONVERSATION ID$/i") = ""
  /\ MessagesCell(2, "^CONVERSATION ID$/i") = ""
  /\ Len(RecipientList(1)) = 2
  /\ RecipientList(1) # RecipientList(2)
  /\ IsPermutation(RecipientList(1), RecipientList(2))
  /\ payload.messages[1].threadId = payload.messages[2].threadId

\* Code-unit order of the recipient URLs of the vocabulary.
UrlRank(url) == CASE url = "u/bob" -> 1 [] url = "u/carol" -> 2 [] OTHER -> 0

Ascending(urls) ==
  \A p \in 1..(Len(urls) - 1) : UrlRank(urls[p]) <= UrlRank(urls[p + 1])

\* The UTC calendar date of the instant a date cell denotes in the local
\* zone; "unknown" when the cell is empty or not a date.
UtcDayOf(dateCell) ==
  CASE dateCell \in {"2024-01-02", "2024-01-02 10:00:00", "2024-01-02 10:00:00 UTC"}
         -> "2024-01-02"
    [] dateCell = "2024-01-02 20:00:00"
         -> IF 20 - tzHours >= 24 THEN "2024-01-03" ELSE "2024-01-02"
    [] OTHER -> "unknown"

MessagesDate(k) ==
  getValueByAliases(MessagesEmittedRows[k], MessagesHeaders,
                    <<Re("^DATE$/i"), Re("Sent On/i")>>)

MessagesParticipant(k) ==
  IF MessagesCell(k, "^TO$/i") # "" THEN MessagesCell(k, "^TO$/i")
  ELSE MessagesCell(k, "^FROM$/i")

\* The thread key the three rules give the row behind the k-th Message.
ThreadKeyByRule(k, key) ==
  IF MessagesCell(k, "^CONVERSATION ID$/i") # ""
  THEN key = T(MessagesCell(k, "^CONVERSATION ID$/i"))
  ELSE IF Len(RecipientList(k)) = 1
  THEN key = stableHash(<<RecipientList(k)[1]>>)
  ELSE IF Len(RecipientList(k)) > 1
  THEN \E s \in [1..Len(RecipientList(k)) -> {RecipientList(k)[p] : p \in 1..Len(RecipientList(k))}] :
         /\ IsPermutation(s, RecipientList(k))
         /\ Ascending(s)
         /\ key = stableHash(Join(s, "|"))
  ELSE key = stableHash(T(MessagesParticipant(k)) \o <<"|", UtcDayOf(MessagesDate(k))>>)

\* C15: the thread key of every emitted Message is (a) the conversation id
\* verbatim when non-empty, (b) else the hash of the single recipient URL or
\* of the sorted, "|"-joined recipient URLs, (c) else the hash of
\* participant|day with participant = to, or from when to is empty, and day
\* the UTC date of the instant, "unknown" when there is none.
C15_ThreadKeyResolution ==
  (pc = "done" /\ TableKind = "messages") =>
    /\ Len(payload.messages) = Len(MessagesEmittedRows)
    /\ \A k \in 1..Len(payload.messages) : ThreadKeyByRule(k, payload.messages[k].threadId)

\* A conversation id beside recipient URLs, and a fallback key whose UTC day
\* is not the local day.
C15_Witness ==
  /\ MessagesDone /\ Len(payload.messages) = 2
  /\ MessagesCell(1, "^CONVERSATION ID$/i") # "" /\ Len(RecipientList(1)) = 1
  /\ payload.messages[1].threadId = T(MessagesCell(1, "^CONVERSATION ID$/i"))
  /\ MessagesCell(2, "^CONVERSATION ID$/i") = "" /\ Len(RecipientList(2)) = 0
  /\ MessagesCell(2, "^TO$/i") = ""
  /\ payload.messages[2].threadId = stableHash(<<MessagesCell(2, "^FROM$/i"), "|", "2024-01-03">>)

\* The cells of the vocabulary in which the letters y-o-u occur in a row.
HasYou(cell) == cell \in {"You", "you", "YOU", "Youssef Ali"}

\* C16: an emitted Message is "me" exactly when its FROM cell contains "you"
\* (any case, anywhere in the cell) and "them" otherwise; otherId is the
\* sender profile URL when "them" and the first non-empty recipient URL, or
\* the empty string, when "me".
C16_DirectionAndCounterpart ==
  (pc = "done" /\ TableKind = "messages") =>
    /\ Len(payload.messages) = Len(MessagesEmittedRows)
    /\ \A k \in 1..Len(payload.messages) :
         /\ payload.messages[k].meOrThem \in {"me", "them"}
         /\ payload.messages[k].meOrThem = "me" <=> HasYou(MessagesCell(k, "^FROM$/i"))
         /\ payload.messages[k].meOrThem = "them" =>
              payload.messages[k].otherId = MessagesCell(k, "SENDER PROFILE URL/i")
         /\ payload.messages[k].meOrThem = "me" =>
              payload.messages[k].otherId =
                (IF Len(RecipientList(k)) > 0 THEN RecipientList(k)[1] ELSE "")

\* A sender cell that merely contains "you", with a sender URL of its own,
\* beside a message from somebody else.
C16_Witness ==
  /\ MessagesDone /\ Len(payload.messages) = 2
  /\ MessagesCell(1, "^FROM$/i") = "Youssef Ali"
  /\ MessagesCell(1, "SENDER PROFILE URL/i") # ""
  /\ payload.messages[1].meOrThem = "me"
  /\ payload.messages[1].otherId = "u/carol"
  /\ payload.messages[2].meOrThem = "them"
  /\ payload.messages[2].otherId = "u/jane"

\* The first 40 characters of a body of the vocabulary.
Body40(body) ==
  IF body \in {LongA, LongB} THEN "0123456789012345678901234567890123456789" ELSE body

SameKeyInstantBody40(a, b) ==
  a.threadId = b.threadId /\ a.ts = b.ts /\ Body40(a.body) = Body40(b.body)

\* The text a (symbolic) digest was computed from.
HashInput(id) == SubSeq(id, 2, Len(id) - 1)

\* A thread key that is a conversation identifier containing the separator.
KeyHasSeparator(key) == key[1] # "sha1x12(" /\ Includes(key, "|")

\* C17 (as claimed): two Messages that agree on thread key, instant and the
\* first 40 characters of the body have the same id, and two that differ in
\* any of the three have different hash inputs.
C17_IdFromKeyInstantBody40Injective ==
  (pc = "done" /\ TableKind = "messages") =>
    \A i \in 1..Len(payload.messages) : \A j \in 1..Len(payload.messages) :
      /\ SameKeyInstantBody40(payload.messages[i], payload.messages[j])
           => payload.messages[i].id = payload.messages[j].id
      /\ ~SameKeyInstantBody40(payload.messages[i], payload.messages[j])
           => HashInput(payload.messages[i].id) # HashInput(payload.messages[j].id)

\* C17 (amended): two Messages that agree on thread key, instant and the
\* first 40 characters of the body have the same id; two that differ in any of
\* the three have different hash inputs provided neither thread key is a
\* conversation identifier containing "|".
C17_IdFromKeyInstantBody40 ==
  (pc = "done" /\ TableKind = "messages") =>
    \A i \in 1..Len(payload.messages) : \A j \in 1..Len(payload.messages) :
      /\ SameKeyInstantBody40(payload.messages[i], payload.messages[j])
           => payload.messages[i].id = payload.messages[j].id
      /\ (/\ ~SameKeyInstantBody40(payload.messages[i], payload.messages[j])
          /\ ~KeyHasSeparator(payload.messages[i].threadId)
          /\ ~KeyHasSeparator(payload.messages[j].threadId))
           => HashInput(payload.messages[i].id) # HashInput(payload.messages[j].id)

\* Two bodies that differ only after character 40, in one thread at one instant.
C17_Witness ==
  /\ MessagesDone /\ Len(payload.messages) = 2
  /\ payload.messages[1].body # payload.messages[2].body
  /\ Body40(payload.messages[1].body) = Body40(payload.messages[2].body)
  /\ payload.messages[1].threadId = payload.messages[2].threadId
  /\ payload.messages[1].ts = payload.messages[2].ts
  /\ payload.messages[1].id = payload.messages[2].id

\* Header row of an Invitations table and the rows processInvitations admits
\* (from or to non-empty), in order.
InvitationsHeader == TableData[1]

InvitationsValue(row, column) ==
  getValueByAliases(row, InvitationsHeader, <<Lit(column)>>)

InvitationsAdmittedRows ==
  IF Len(TableData) < 2 THEN <<>>
  ELSE SelectIdx(DataRowsFrom(TableData, 1),
                 [i \in 1..Len(DataRowsFrom(TableData, 1)) |->
                    ~(/\ InvitationsValue(DataRowsFrom(TableData, 1)[i], "From") = ""
                      /\ InvitationsValue(DataRowsFrom(TableData, 1)[i], "To") = "")])

InvitationsCell(k, column) == InvitationsValue(InvitationsAdmittedRows[k], column)

\* Cells of the vocabulary that contain "outgoing" / "incoming" in any case.
HasOutgoing(cell) == cell \in {"OUTGOING", "Outgoing"}
HasIncoming(cell) == cell \in {"INCOMING", "Incoming"}

DirectionByRule(k) ==
  IF HasOutgoing(InvitationsCell(k, "Direction")) THEN "sent"
  ELSE IF HasIncoming(InvitationsCell(k, "Direction")) THEN "received"
  ELSE IF HasYou(InvitationsCell(k, "From")) THEN "sent"
  ELSE "received"

\* C18: for every admitted Invitations row the direction is "sent" when the
\* direction cell contains "outgoing", else "received" when it contains
\* "incoming", else "sent" exactly when the from cell contains "you";
\* counterpartName is the to cell when sent and the from cell when received;
\* status is "unknown".
C18_InviteDirection ==
  (pc = "done" /\ TableKind = "Invitations") =>
    /\ Len(payload.invites) = Len(InvitationsAdmittedRows)
    /\ \A k \in 1..Len(payload.invites) :
         /\ payload.invites[k].direction = DirectionByRule(k)
         /\ payload.invites[k].direction = "sent" =>
              payload.invites[k].counterpartName = InvitationsCell(k, "To")
         /\ payload.invites[k].direction = "received" =>
              payload.invites[k].counterpartName = InvitationsCell(k, "From")
         /\ payload.invites[k].status = "unknown"

\* from = "You", to = "Sarah Wilson", no Direction column; beside it a row
\* whose sender is somebody else.
C18_Witness ==
  /\ pc = "done" /\ TableKind = "Invitations" /\ Len(payload.invites) = 2
  /\ ~Includes(InvitationsHeader, "Direction")
  /\ InvitationsCell(1, "From") = "You"
  /\ InvitationsCell(1, "To") = "Sarah Wilson"
  /\ payload.invites[1].direction = "sent"
  /\ payload.invites[1].counterpartName = "Sarah Wilson"
  /\ payload.invites[1].status = "unknown"
  /\ payload.invites[2].direction = "received"
  /\ payload.invites[2].counterpartName = "Sarah Wilson"

\* ---------------------------------------------- saved jobs and applications
JobKinds == {"Saved Jobs", "Job Applications"}

\* C19: after a run the savedJobs collection holds the admitted rows of every
\* Saved Jobs and Job Applications file it processed, in processing order,
\* and the records of such a file are the same whichever of the two kinds
\* the file is taken for.
C19_JobsCombinedKindBlind ==
  pc = "done" =>
    /\ payload.savedJobs = RecordsOf(JobKinds)
    /\ \A k \in 1..Len(filesToProcess) :
         (/\ ReachesNormalizer(filesToProcess[k])
          /\ FileTypeOf(ToLowerCase(filesToProcess[k].name)) \in JobKinds) =>
           processSavedJobs(parseTable(filesToProcess[k].rows), filesToProcess[k].name, TRUE).records
             = processSavedJobs(parseTable(filesToProcess[k].rows), filesToProcess[k].name, FALSE).records

\* A Saved Jobs file processed before a Job Applications file, each with a row.
C19_Witness ==
  /\ pc = "done" /\ Len(log) = 2
  /\ log[1].fileType = "Saved Jobs" /\ Len(log[1].records) = 1
  /\ log[2].fileType = "Job Applications" /\ Len(log[2].records) = 1
  /\ payload.savedJobs = log[1].records \o log[2].records

\* ------------------------------------------------------------ header rows
\* Number of descriptive rows at the top of the table of the run's file.
PreambleCount ==
  Cardinality({i \in 1..Len(files[1].rows) :
                 \A j \in 1..i : files[1].rows[j] = <<"Notes:">>})

\* The same table without its preamble: header row first.
WithoutPreamble == SubSeq(files[1].rows, PreambleCount + 1, Len(files[1].rows))

\* The records of the kind of the run's file, as posted.
TableRecords ==
  CASE TableKind = "Connections" -> payload.contacts
    [] TableKind = "messages" -> payload.messages
    [] TableKind = "Invitations" -> payload.invites
    [] TableKind = "Company Follows" -> payload.companyFollows
    [] TableKind \in JobKinds -> payload.savedJobs

\* C20 (as claimed): for a file of any kind, when the header row is among the
\* first 10 rows the rows before it are discarded and the records are those
\* of the table without its preamble; when it is not, the file yields zero
\* records and a warning.
C20_HeaderFoundBehindPreamble ==
  pc = "done" =>
    IF PreambleCount < 10
    THEN TableRecords = Normalize(TableKind, parseTable(WithoutPreamble), files[1].name).records
    ELSE TableRecords = <<>> /\ Len(payload.summary.warnings) > 0

\* ---------------------------------------------------------- alias resolution
\* Positions of the aliases that match some header cell, and of the header
\* cells an alias matches.
MatchingAliases(headers, aliases) ==
  {k \in 1..Len(aliases) : \E i \in 1..Len(headers) : AliasTest(aliases[k], headers[i])}

MatchedCells(headers, alias) ==
  {i \in 1..Len(headers) : AliasTest(alias, headers[i])}

Least(S) == CHOOSE x \in S : \A y \in S : x <= y

\* The value of a field when the EARLIEST matching alias decides the column.
ValueByAliasOrder(row, headers, aliases) ==
  IF MatchingAliases(headers, aliases) = {} THEN ""
  ELSE Cell(row, Least(MatchedCells(headers, aliases[Least(MatchingAliases(headers, aliases))])))

PositionAliases == <<Lit("Position"), Lit("Title"), Lit("Job Title")>>

\* C21 (as claimed): the title of every Contact is the cell of the column
\* matched by the earliest of the aliases Position, Title, Job Title that
\* matches any header cell; undefined when none matches.
C21_EarliestAliasWins ==
  (pc = "done" /\ TableKind = "Connections") =>
    /\ Len(payload.contacts) = Len(ConnectionsDataRows)
    /\ \A k \in 1..Len(payload.contacts) :
         payload.contacts[k].title =
           OrUndefined(ValueByAliasOrder(ConnectionsDataRows[k], ConnectionsHeaders,
                                         PositionAliases))

\* ------------------------------------------------------------ date warnings
\* The data rows of a table whose header is its first row that satisfy Keep.
RowsKept(Keep(_)) ==
  IF Len(TableData) < 2 THEN <<>>
  ELSE SelectIdx(DataRowsFrom(TableData, 1),
                 [i \in 1..Len(DataRowsFrom(TableData, 1)) |->
                    Keep(DataRowsFrom(TableData, 1)[i])])

FollowsOrganization(row) ==
  getValueByAliases(row, TableData[1], <<Lit("Organization"), Lit("Company")>>)

HasOrganization(row) == FollowsOrganization(row) # ""

HasTitleOrCompany(row) ==
  \/ getValueByAliases(row, TableData[1], <<Lit("Title"), Lit("Job Title")>>) # ""
  \/ getValueByAliases(row, TableData[1], <<Lit("Company"), Lit("Company Name")>>) # ""

\* The rows of the run's table that its normalizer admits, in order.
AdmittedRows ==
  CASE TableKind = "Connections" -> ConnectionsDataRows
    [] TableKind = "messages" -> MessagesEmittedRows
    [] TableKind = "Invitations" -> InvitationsAdmittedRows
    [] TableKind = "Company Follows" -> RowsKept(HasOrganization)
    [] TableKind \in JobKinds -> RowsKept(HasTitleOrCompany)

\* The header row and the date aliases of the run's table.
AdmittedHeaders == IF TableKind = "Connections" THEN ConnectionsHeaders ELSE TableData[1]

DateAliases ==
  CASE TableKind = "Connections"
         -> <<Lit("Connected On"), Lit("Connected on"), Lit("Connected")>>
    [] TableKind = "messages" -> <<Re("^DATE$/i"), Re("Sent On/i")>>
    [] TableKind = "Invitations" -> <<Lit("Sent At"), Lit("Date"), Lit("Sent On")>>
    [] TableKind = "Company Follows" -> <<Lit("Followed On"), Lit("Date")>>
    [] TableKind \in JobKinds -> SavedJobsDateAliases

\* The date text of the k-th admitted row.
DateText(k) == getValueByAliases(AdmittedRows[k], AdmittedHeaders, DateAliases)

\* The date texts of the vocabulary that new Date() can read.
ReadableDates ==
  {"2024-01-02", "2024-01-02 10:00:00", "2024-01-02 10:00:00 UTC", "2024-01-02 20:00:00"}

Unparseable(text) == text # "" /\ text \notin ReadableDates

InstantOf(rec) == IF TableKind = "Connections" THEN rec.connectedAt ELSE rec.ts

\* The date texts quoted by the "Could not parse date" warnings, in order.
IsDateWarning(w) ==
  \E p \in 1..Len(w) :
    w[p] \in {"Connections: Could not parse date \"", "Messages: Could not parse date \"",
              "Invitations: Could not parse date \"",
              "Company Follows: Could not parse date \"", ": Could not parse date \""}

DateWarningTexts ==
  Flatten([n \in 1..Len(payload.summary.warnings) |->
             IF IsDateWarning(payload.summary.warnings[n])
             THEN <<payload.summary.warnings[n][Len(payload.summary.warnings[n]) - 1]>>
             ELSE <<>>])

UnparseableDateTexts ==
  Flatten([k \in 1..Len(AdmittedRows) |->
             IF Unparseable(DateText(k)) THEN <<DateText(k)>> ELSE <<>>])

\* C22: every admitted row becomes a record, also when its date text cannot
\* be parsed; the record of a row with an unparseable (or empty) date text
\* has an empty instant, that of a row with a readable date a non-empty one;
\* and the "Could not parse date" warnings are, in order, one per admitted
\* row with a non-empty unparseable date text, quoting that text.
C22_UnparseableDateKeptAndWarned ==
  pc = "done" =>
    /\ Len(TableRecords) = Len(AdmittedRows)
    /\ \A k \in 1..Len(TableRecords) :
         InstantOf(TableRecords[k]) = "" <=> DateText(k) \notin ReadableDates
    /\ DateWarningTexts = UnparseableDateTexts

\* Two admitted rows, the first with an unparseable date, the second with a
\* readable one: two records, one warning.
C22_Witness ==
  /\ pc = "done" /\ Len(TableRecords) = 2
  /\ Unparseable(DateText(1))
  /\ InstantOf(TableRecords[1]) = ""
  /\ DateText(2) \in ReadableDates
  /\ InstantOf(TableRecords[2]) # ""
  /\ DateWarningTexts = <<DateText(1)>>

\* ------------------------------------------------------------- UTC suffix
\* C23: an empty date text gives the empty instant, and a date text with a
\* trailing " UTC" gives the zero-offset instant of that same UTC moment
\* ("2024-01-02 10:00:00 UTC" is 2024-01-02T10:00:00.000Z), whatever the
\* local time zone of the executing environment.
C23_UtcSuffixSameMoment ==
  pc = "done" =>
    /\ Len(TableRecords) = Len(AdmittedRows)
    /\ \A k \in 1..Len(TableRecords) :
         /\ DateText(k) = "" => InstantOf(TableRecords[k]) = ""
         /\ DateText(k) = "2024-01-02 10:00:00 UTC"
              => InstantOf(TableRecords[k]) = "2024-01-02T10:00:00.000Z"

\* ------------------------------------------------------------- hash length
\* C24: every record id is an identity hash of one fixed length, and that
\* length retains at least 64 bits of the digest.
C24_HashKeeps64Bits ==
  pc = "done" =>
    \A k \in 1..Len(TableRecords) :
      /\ HexLength(TableRecords[k].id) = stableHashLength
      /\ HexLength(TableRecords[k].id) * BitsPerHexChar >= 64

RelevantSubstrings ==
  {"connections", "messages", "invitations", "company follows", "saved jobs",
   "job applications"}

BaseNameRelevant(name) ==
  \E pattern \in RelevantSubstrings : Includes(ToLowerCase(Basename(name)), pattern)

\* C26: an archive entry is extracted only if its BASE NAME contains one of
\* the six substrings, compared case-insensitively: every file that came out
\* of an archive has such a base name, and no normalizer ran on (and no
\* record came from) an entry such as connections/notes.csv, whose directory
\* alone carries the substring.
C26_ExtractedByBaseName ==
  pc = "done" =>
    /\ \A i \in 1..Len(filesToProcess) :
         IsZipName(filesToProcess[i].originalName)
           => BaseNameRelevant(filesToProcess[i].name)
    /\ \A n \in 1..Len(log) :
         IsZipName(log[n].originalName) => BaseNameRelevant(log[n].name)

\* ------------------------------------------------------- no row is dropped
\* The non-empty data rows behind the header row of a table that starts with
\* its header row.
NonEmptyDataRows ==
  LET rest == SubSeq(TableData, 2, Len(TableData))
  IN {i \in 1..Len(rest) : \E c \in 1..Len(rest[i]) : rest[i][c] # ""}

\* C27: no data row is dropped for a missing field: a file of any kind whose
\* table starts with its header row yields as many records as it has
\* non-empty data rows behind the header.
C27_OneRecordPerDataRow ==
  (pc = "done" /\ PreambleCount = 0 /\ Len(TableData) > 0)
    => Len(TableRecords) = Cardinality(NonEmptyDataRows)

\* ------------------------------------------------------------- termination
\* C28: for every message, whatever mix of unreadable files, unopenable
\* archives, corrupt workbooks and unrecognised files it carries, the handler
\* terminates and has posted exactly one payload: never more than one, and
\* eventually, for good, one.
C28_TerminatesWithOnePayload ==
  /\ [](Len(posted) <= 1)
  /\ [](posted # <<>> => pc = "done")
  /\ <>[](pc = "done" /\ Len(posted) = 1)

\* A finished run whose message held an archive that does not open and a
\* file that cannot be read.
C28_Witness ==
  /\ pc = "done" /\ Len(posted) = 1
  /\ \E i \in 1..Len(files) : ~files[i].openOk
  /\ \E i \in 1..Len(files) : ~files[i].readOk
  /\ Len(posted[1].summary.warnings) >= 2

\* ------------------------------------------------- every file accounted for
\* Some warning of the posted summary names the file (by path or base name).
WarningNames(name) ==
  \E n \in 1..Len(payload.summary.warnings) :
    \/ Mentions(payload.summary.warnings[n], name)
    \/ Mentions(payload.summary.warnings[n], Basename(name))

\* The file, supplied as or inside originalName, was handed to a normalizer
\* and recorded in summary.filesProcessed.
Contributed(name, originalName) ==
  \E n \in 1..Len(log) :
    /\ log[n].name = name
    /\ log[n].originalName = originalName
    /\ \E k \in 1..Len(payload.summary.filesProcessed) :
         payload.summary.filesProcessed[k] = <<log[n].fileType, " (">> \o originalName \o <<")">>

\* C29: every supplied file is accounted for: each file that is not an
\* archive, and each entry of an archive that opens that is not a directory,
\* either contributes to summary.filesProcessed or is named by at least one
\* warning.
C29_EveryFileAccountedFor ==
  pc = "done" =>
    \A i \in 1..Len(files) :
      IF IsZipName(files[i].name)
      THEN files[i].openOk =>
             \A j \in 1..Len(files[i].entries) :
               ~files[i].entries[j].dir =>
                 \/ Contributed(files[i].entries[j].name, files[i].name)
                 \/ WarningNames(files[i].entries[j].name)
      ELSE \/ Contributed(files[i].name, files[i].name)
           \/ WarningNames(files[i].name)

\* ----------------------------------------------------------- the data store
\* C30: whatever handleFilesSelected and clearData calls have happened, the
\* store holds null or, whole, the payload one invocation resolved with (a
\* payload the handler computes for a supplied file list); the stored value
\* changes only when clearData empties it or when a pending promise resolves,
\* and then to that promise's value, so a rejected or timed-out invocation
\* leaves it as it was; and hasData() is true exactly when getParsedData()
\* is not null.
C30_StoreHoldsNullOrResolvedPayload ==
  /\ [](/\ hasData <=> getParsedData # Null
        /\ hasData =>
             /\ \E i \in 1..Len(invs) :
                  invs[i].state = "resolved" /\ invs[i].value = getParsedData
             /\ \E j \in 1..Len(invs) :
                  getParsedData = <<HandlerPayload(invs[j].files)>>)
  /\ [][parsedData' # parsedData =>
          \/ parsedData' = <<>>
          \/ \E i \in 1..Len(invs) :
               /\ invs[i].state = "pending"
               /\ invs'[i].state = "resolved"
               /\ parsedData' = invs'[i].value]_vars

\* The store holds the payload of the first invocation while the second
\* invocation has been rejected.
C30_Witness ==
  /\ Len(invs) = 2
  /\ invs[1].state = "resolved" /\ invs[2].state = "rejected"
  /\ hasData /\ getParsedData = invs[1].value
  /\ outbox = <<>> /\ inbox = <<>> /\ running = {}

====
